---- MODULE Spec2Model ----
(***************************************************************************)
(* A model of mahjongscore.py: ScoreMaster.parse read as a state machine   *)
(* that examines one line of the scores text per iteration, and the score  *)
(* engine of class Game.  Text is kept as strings; a character of a string *)
(* s is SubSeq(s, i, i).  Python's None is the empty tuple <<>> and a      *)
(* present value x is the one-element tuple <<x>>.  An operator parameter   *)
(* named after a variable of parse carries a trailing underscore.          *)
(***************************************************************************)
EXTENDS Integers, Sequences, FiniteSets, TLC

None == <<>>

Some(x) == <<x>>

\* -------------------------------------------------------------- the state

VARIABLES
    start_date,         \* parse's argument: None or Some(yyyy-mm-dd)
    end_date,           \* parse's argument: None or Some(yyyy-mm-dd)
    player_from_name,   \* the Player records, in insertion order
    games,              \* the Game records appended so far
    date,               \* None or Some(yyyy-mm-dd)
    base,               \* a number
    maximum_faan,       \* an int
    responsibility,     \* "half" or "full"
    spiciness,          \* "half" or "spicy"
    names,              \* None or Some(<<name_0, name_1, name_2, name_3>>)
    line_number,        \* of the line being examined, 0 before the first
    line,               \* Some(the line being examined, or that raised), else None
    pc,                 \* "for": between lines; "line": in the loop body;
                        \* "raised": parse raised; "returned": parse returned
    raised,             \* None or Some(the exception parse raised)
    players_including_everyone, \* parse's first return value, <<>> before it returns
    tsv                         \* the players in the order write_tsv writes their rows

vars == <<start_date, end_date, player_from_name, games, date, base, maximum_faan,
          responsibility, spiciness, names, line_number, line, pc, raised,
          players_including_everyone, tsv>>

context == <<date, base, maximum_faan, responsibility, spiciness, names>>

\* ------------------------------------------------------------------ bounds

\* The scores text has at most MaxLines lines.
MaxLines == 4

\* Once MaxGames of its game lines are appended to `games` the text has no
\* further game line.
MaxGames == 1

\* ------------------------------------------------------------- characters

Char(s, i) == SubSeq(s, i, i)

\* The characters the model's texts use, in code-point order.
CodePointOrder == "\t #*-.0123456789=ABCDEFGHIJKLMNOPQRSTUVWXYZabcdefghijklmnopqrstuvwxyz"

CodePoint(c) == CHOOSE i \in 1..Len(CodePointOrder) : Char(CodePointOrder, i) = c

DigitChars == {"0", "1", "2", "3", "4", "5", "6", "7", "8", "9"}

SpaceChars == {" ", "\t"}

DigitValue(c) == CodePoint(c) - CodePoint("0")

RECURSIVE StrLess(_, _)
\* Python's `a < b` on str: lexicographic by code point, a proper prefix first.
StrLess(a, b) ==
    IF b = "" THEN FALSE
    ELSE IF a = "" THEN TRUE
    ELSE IF Char(a, 1) = Char(b, 1) THEN StrLess(Tail(a), Tail(b))
    ELSE CodePoint(Char(a, 1)) < CodePoint(Char(b, 1))

AllChars(s, S) == \A i \in 1..Len(s) : Char(s, i) \in S

NoChar(s, S) == \A i \in 1..Len(s) : Char(s, i) \notin S

RECURSIVE FirstHash(_, _)
\* Index of the first `#` of s at or after i, Len(s) + 1 when there is none.
FirstHash(s, i) ==
    IF i > Len(s) THEN i
    ELSE IF Char(s, i) = "#" THEN i
    ELSE FirstHash(s, i + 1)

RECURSIVE SplitSpace(_, _, _, _)
\* The maximal runs of non-whitespace characters of s from index i on.
SplitSpace(s, i, cur, acc) ==
    IF i > Len(s) THEN (IF cur = "" THEN acc ELSE Append(acc, cur))
    ELSE IF Char(s, i) \in SpaceChars
         THEN SplitSpace(s, i + 1, "", IF cur = "" THEN acc ELSE Append(acc, cur))
         ELSE SplitSpace(s, i + 1, cur \o Char(s, i), acc)

\* Every line pattern has the shape  ^ \s* T1 (\s+ T2 ...)? \s* (?: # .* )? $
\* where no Ti can hold whitespace or `#`: the line matches exactly when the
\* text before its first `#` splits on whitespace into tokens matching T1, T2...
LineTokens(line_) == SplitSpace(SubSeq(line_, 1, FirstHash(line_, 1) - 1), 1, "", <<>>)

\* ---------------------------------------------------------- line patterns

IsDateToken(t) ==
    /\ Len(t) = 10
    /\ \A i \in {1, 2, 3, 4, 6, 7, 9, 10} : Char(t, i) \in DigitChars
    /\ Char(t, 5) = "-"
    /\ Char(t, 8) = "-"

\* A token  <letter>=<rest>  such as B=0.5: its <rest>, else None.
Declared(t, letter) ==
    IF Len(t) >= 2 /\ Char(t, 1) = letter /\ Char(t, 2) = "="
    THEN Some(SubSeq(t, 3, Len(t)))
    ELSE None

\* player_name_regex  [^\s#*0-9-][^\s#*]*  (a token holds no whitespace or `#`).
IsNameToken(t) ==
    /\ Len(t) >= 1
    /\ Char(t, 1) \notin (DigitChars \cup {"-", "*"})
    /\ NoChar(t, {"*"})

\* faan_regex  [0-9]+
IsFaanToken(t) == Len(t) >= 1 /\ AllChars(t, DigitChars)

\* blame_regex  [-dDSf]
IsBlameToken(t) == t \in {"-", "d", "D", "S", "f"}

match_date_line(line_) ==
    LET t == LineTokens(line_)
    IN  IF Len(t) = 1 /\ IsDateToken(t[1]) THEN Some([date |-> t[1]]) ELSE None

match_base_line(line_) ==
    LET t == LineTokens(line_)
        d == IF Len(t) = 1 THEN Declared(t[1], "B") ELSE None
    IN  IF d # None /\ Len(d[1]) >= 1 /\ AllChars(d[1], DigitChars \cup {"."})
        THEN Some([base |-> d[1]])
        ELSE None

match_maximum_line(line_) ==
    LET t == LineTokens(line_)
        d == IF Len(t) = 1 THEN Declared(t[1], "M") ELSE None
    IN  IF d # None /\ Len(d[1]) >= 1 /\ AllChars(d[1], DigitChars)
        THEN Some([maximum_faan |-> d[1]])
        ELSE None

match_responsibility_line(line_) ==
    LET t == LineTokens(line_)
        d == IF Len(t) = 1 THEN Declared(t[1], "R") ELSE None
    IN  IF d # None /\ d[1] \in {"half", "full"}
        THEN Some([responsibility |-> d[1]])
        ELSE None

match_spiciness_line(line_) ==
    LET t == LineTokens(line_)
        d == IF Len(t) = 1 THEN Declared(t[1], "S") ELSE None
    IN  IF d # None /\ d[1] \in {"half", "spicy"}
        THEN Some([spiciness |-> d[1]])
        ELSE None

\* match_players_line with the blame letters refused as names.
match_players_line_no_letters(line_) ==
    LET t == LineTokens(line_)
    IN  IF Len(t) = 4 /\ \A i \in 1..4 : IsNameToken(t[i]) /\ ~IsBlameToken(t[i])
        THEN Some([name |-> t])
        ELSE None

\* The groups name_0 .. name_3 are kept as the tuple `name`, indexed 1..4.
match_players_line(line_) ==
    LET t == LineTokens(line_)
    IN  IF Len(t) = 4 /\ \A i \in 1..4 : IsNameToken(t[i])
        THEN Some([name |-> t])
        ELSE None

\* match_game_line with a faan token taking part in both groups of its seat.
match_game_line_both_groups(line_) ==
    LET t == LineTokens(line_)
    IN  IF Len(t) = 4 /\ \A i \in 1..4 : IsFaanToken(t[i]) \/ IsBlameToken(t[i])
        THEN Some([faan  |-> [i \in 1..4 |-> IF IsFaanToken(t[i]) THEN Some(t[i]) ELSE None],
                   blame |-> [i \in 1..4 |-> Some(t[i])]])
        ELSE None

\* The groups faan_i and blame_i are kept as the tuples `faan` and `blame`,
\* indexed 1..4; of each seat's two groups the one that did not take part in
\* the match is None.
match_game_line(line_) ==
    LET t == LineTokens(line_)
    IN  IF Len(t) = 4 /\ \A i \in 1..4 : IsFaanToken(t[i]) \/ IsBlameToken(t[i])
        THEN Some([faan  |-> [i \in 1..4 |-> IF IsFaanToken(t[i]) THEN Some(t[i]) ELSE None],
                   blame |-> [i \in 1..4 |-> IF IsFaanToken(t[i]) THEN None ELSE Some(t[i])]])
        ELSE None

match_comment_line(line_) == IF LineTokens(line_) = <<>> THEN Some([comment |-> TRUE]) ELSE None

\* ------------------------------------------------------------ arithmetic
\* Python numbers.  An int or a float is the exact dyadic rational
\*     (IF neg THEN -1 ELSE 1) * man * 2^exp
\* whose magnitude `man` is a natural number written in base 2^15, least
\* significant digit first and without leading zeros (zero is <<>>), so that
\* the 53 bits of a float's significand fit.  The canonical form has an odd
\* `man`; zero is [neg |-> FALSE, man |-> <<>>, exp |-> 0].

\* Bits of a float's significand (IEEE 754 binary64, Python's float).
SignificandBits == 53

DigitBase == 2^15

DigitBits == CHOOSE k \in 1..30 : 2^k = DigitBase

RECURSIVE DigitsOf(_)
DigitsOf(n) == IF n = 0 THEN <<>> ELSE <<n % DigitBase>> \o DigitsOf(n \div DigitBase)

RECURSIVE Trim(_)
\* Drop the leading (most significant) zeros.
Trim(a) == IF a # <<>> /\ a[Len(a)] = 0 THEN Trim(SubSeq(a, 1, Len(a) - 1)) ELSE a

RECURSIVE AddDigits(_, _, _)
AddDigits(a, b, carry) ==
    IF a = <<>> /\ b = <<>> THEN (IF carry = 0 THEN <<>> ELSE <<carry>>)
    ELSE LET x == IF a = <<>> THEN 0 ELSE a[1]
             y == IF b = <<>> THEN 0 ELSE b[1]
             t == x + y + carry
         IN  <<t % DigitBase>> \o AddDigits(IF a = <<>> THEN a ELSE Tail(a),
                                            IF b = <<>> THEN b ELSE Tail(b),
                                            t \div DigitBase)

RECURSIVE SubDigits(_, _, _)
\* a - b - borrow for a >= b + borrow, before trimming.
SubDigits(a, b, borrow) ==
    IF a = <<>> THEN <<>>
    ELSE LET y == IF b = <<>> THEN 0 ELSE b[1]
             t == a[1] - y - borrow
         IN  <<t % DigitBase>> \o SubDigits(Tail(a), IF b = <<>> THEN b ELSE Tail(b),
                                            IF t < 0 THEN 1 ELSE 0)

RECURSIVE LessDigits(_, _)
LessDigits(a, b) ==
    IF Len(a) # Len(b) THEN Len(a) < Len(b)
    ELSE IF a = <<>> THEN FALSE
    ELSE IF a[Len(a)] # b[Len(b)] THEN a[Len(a)] < b[Len(b)]
    ELSE LessDigits(SubSeq(a, 1, Len(a) - 1), SubSeq(b, 1, Len(b) - 1))

RECURSIVE MulDigits(_, _, _)
\* a * k + carry for a natural number k < DigitBase.
MulDigits(a, k, carry) ==
    IF a = <<>> THEN (IF carry = 0 THEN <<>> ELSE <<carry>>)
    ELSE LET t == a[1] * k + carry
         IN  <<t % DigitBase>> \o MulDigits(Tail(a), k, t \div DigitBase)

RECURSIVE DivDigits(_, _, _, _)
\* Long division of a by the natural number 0 < d < DigitBase, most
\* significant digit first: <<quotient before trimming, remainder>>.
DivDigits(a, d, i, rem) ==
    IF i = 0 THEN <<<<>>, rem>>
    ELSE LET r    == rem * DigitBase + a[i]
             rest == DivDigits(a, d, i - 1, r % d)
         IN  <<Append(rest[1], r \div d), rest[2]>>

\* a * 2^n and floor(a / 2^n).
Shl(a, n) ==
    IF a = <<>> THEN <<>>
    ELSE [i \in 1..(n \div DigitBits) |-> 0] \o MulDigits(a, 2^(n % DigitBits), 0)

Shr(a, n) ==
    LET high == SubSeq(a, (n \div DigitBits) + 1, Len(a))
    IN  Trim(DivDigits(high, 2^(n % DigitBits), Len(high), 0)[1])

\* The number of bits of a natural number below DigitBase, and of a.
SmallBitLength(n) == CHOOSE k \in 0..DigitBits : 2^k > n /\ (k = 0 \/ 2^(k - 1) <= n)

BitLength(a) ==
    IF a = <<>> THEN 0 ELSE DigitBits * (Len(a) - 1) + SmallBitLength(a[Len(a)])

\* The number of low zero bits of a # 0.
LowZeros(a) ==
    LET i == CHOOSE j \in 1..Len(a) : a[j] # 0 /\ \A h \in 1..(j - 1) : a[h] = 0
        z == CHOOSE k \in 0..DigitBits : a[i] % 2^k = 0 /\ a[i] % 2^(k + 1) # 0
    IN  DigitBits * (i - 1) + z

Zero == [neg |-> FALSE, man |-> <<>>, exp |-> 0]

Canonical(neg, man, exp) ==
    IF man = <<>> THEN Zero
    ELSE LET z == LowZeros(man)
         IN  [neg |-> neg, man |-> Shr(man, z), exp |-> exp + z]

FromInt(n) == Canonical(n < 0, DigitsOf(IF n < 0 THEN -n ELSE n), 0)

\* Round-half-to-even: `kept` are the bits to keep, `rest` the bits dropped
\* below them and `half` one half unit of the last bit kept; `sticky` tells
\* that the exact value lies strictly above the one given.
RoundsUp(kept, rest, half, sticky) ==
    \/ LessDigits(half, rest)
    \/ rest = half /\ (sticky \/ kept[1] % 2 = 1)

RoundKept(neg, kept, exp, rest, half, sticky) ==
    Canonical(neg,
              IF RoundsUp(kept, rest, half, sticky) THEN AddDigits(kept, <<1>>, 0) ELSE kept,
              exp)

RoundDropping(neg, man, exp, sticky, drop, kept) ==
    RoundKept(neg, kept, exp + drop, Trim(SubDigits(man, Shl(kept, drop), 0)),
              Shl(<<1>>, drop - 1), sticky)

\* The float nearest to man * 2^exp, which has at most SignificandBits bits.
RoundFloat(neg, man, exp, sticky) ==
    IF BitLength(man) <= SignificandBits THEN Canonical(neg, man, exp)
    ELSE RoundDropping(neg, man, exp, sticky, BitLength(man) - SignificandBits,
                       Shr(man, BitLength(man) - SignificandBits))

Neg(x) == IF x.man = <<>> THEN x ELSE [x EXCEPT !.neg = ~x.neg]

RECURSIVE OddPart(_)
OddPart(k) == IF k % 2 = 0 THEN OddPart(k \div 2) ELSE k

RECURSIVE TwoPart(_)
TwoPart(k) == IF k % 2 = 0 THEN 1 + TwoPart(k \div 2) ELSE 0

\* k * x for an int k # 0 whose odd part is below DigitBase: the product of
\* two ints is exact, a product with a float is rounded once.  (A small int
\* has few bits, and rounding leaves it alone.)
Times(k, x) ==
    LET a == IF k < 0 THEN -k ELSE k
    IN  RoundFloat((k < 0) # x.neg, MulDigits(x.man, OddPart(a), 0), x.exp + TwoPart(a), FALSE)

\* x / 2: true division, exact in binary.
Halve(x) == IF x.man = <<>> THEN x ELSE [x EXCEPT !.exp = x.exp - 1]

\* The exact sum of two numbers.
Sum(x, y) ==
    LET e  == IF x.exp < y.exp THEN x.exp ELSE y.exp
        xm == Shl(x.man, x.exp - e)
        ym == Shl(y.man, y.exp - e)
    IN  IF x.man = <<>> THEN y
        ELSE IF y.man = <<>> THEN x
        ELSE IF x.neg = y.neg THEN Canonical(x.neg, AddDigits(xm, ym, 0), e)
        ELSE IF LessDigits(xm, ym) THEN Canonical(y.neg, Trim(SubDigits(ym, xm, 0)), e)
        ELSE Canonical(x.neg, Trim(SubDigits(xm, ym, 0)), e)

Rounded(x) == RoundFloat(x.neg, x.man, x.exp, FALSE)

\* x + y as Python computes it: exact on ints, rounded on floats.
Plus(x, y) == Rounded(Sum(x, y))

Less(x, y) == Sum(x, Neg(y)).neg

RECURSIVE DecimalDigits(_, _, _)
\* The digits of a string of [.0-9]+ read as one natural number.
DecimalDigits(s, i, acc) ==
    IF i > Len(s) THEN acc
    ELSE IF Char(s, i) = "." THEN DecimalDigits(s, i + 1, acc)
    ELSE DecimalDigits(s, i + 1, MulDigits(acc, 10, DigitValue(Char(s, i))))

RECURSIVE PowerOfTen(_)
PowerOfTen(k) == IF k = 0 THEN 1 ELSE 10 * PowerOfTen(k - 1)

\* float(base_str) on a string of [.0-9]+: a ValueError (None here) unless
\* the string has a digit and at most one point; else the float nearest to
\* digits / 10^(digits after the point), for up to four such digits.
RoundQuotient(neg, qr, exp) == RoundFloat(neg, Trim(qr[1]), exp, qr[2] # 0)

\* The float nearest to man * 2^exp / d for a natural number 0 < d < DigitBase.
Quotient(neg, man, exp, d, shift) ==
    RoundQuotient(neg, DivDigits(Shl(man, shift), d, Len(Shl(man, shift)), 0), exp - shift)

float(s) ==
    LET points == {i \in 1..Len(s) : Char(s, i) = "."}
        k      == IF points = {} THEN 0 ELSE Len(s) - (CHOOSE i \in points : TRUE)
    IN  IF Cardinality(points) > 1 \/ Cardinality(points) = Len(s) THEN None
        ELSE Some(Quotient(FALSE, DecimalDigits(s, 1, <<>>), 0, PowerOfTen(k),
                           SignificandBits + 2 + 4 * k))

RECURSIVE ParseDigits(_, _, _)
ParseDigits(s, i, acc) ==
    IF i > Len(s) THEN acc ELSE ParseDigits(s, i + 1, 10 * acc + DigitValue(Char(s, i)))

\* int(s) on a string of [0-9]+.
int(s) == ParseDigits(s, 1, 0)

\* ------------------------------------------------------------- exceptions
\* A call either returns a value or raises an exception.

Return(v) == [raised |-> None, value |-> Some(v)]

Raise(type, line_number_) ==
    [raised |-> Some([type |-> type, line_number |-> line_number_]), value |-> None]

\* The engine's `raise RuntimeError('Implementation error: ...')`.
RaiseRuntimeError == [raised |-> Some([type |-> "RuntimeError"]), value |-> None]

\* -------------------------------------------------------------- helpers

RECURSIVE get_duplicates(_)
\* The items of a tuple that repeat an earlier item, in order.
get_duplicates(iterable) ==
    IF iterable = <<>> THEN <<>>
    ELSE LET n    == Len(iterable)
             init == SubSeq(iterable, 1, n - 1)
             item == iterable[n]
         IN  IF \E i \in 1..(n - 1) : init[i] = item
             THEN Append(get_duplicates(init), item)
             ELSE get_duplicates(init)

normalise_faan(faan_string) ==
    IF faan_string = None THEN None ELSE Some(int(faan_string[1]))

normalise_blame(blame_string) ==
    IF blame_string = None THEN None
    ELSE IF blame_string[1] = "-" THEN None
    ELSE blame_string

\* extract_faan with `len(faan_indices) > 2`.
extract_faan_two_winners(faans, maximum_faan_, line_number_) ==
    LET faan_indices == {i \in 0..3 : faans[i + 1] # None}
        winner_index == IF faan_indices = {} THEN None
                        ELSE Some(CHOOSE i \in faan_indices : TRUE)
        winner_faan  == IF winner_index = None THEN None ELSE faans[winner_index[1] + 1]
    IN  IF Cardinality(faan_indices) > 2
        THEN Raise("MultipleWinnersException", line_number_)
        ELSE IF winner_faan # None /\ winner_faan[1] > maximum_faan_
        THEN Raise("MaximumFaanExceededException", line_number_)
        ELSE Return([winner_index |-> winner_index, winner_faan |-> winner_faan])

\* extract_faan with `winner_faan >= maximum_faan`.
extract_faan_below_maximum(faans, maximum_faan_, line_number_) ==
    LET faan_indices == {i \in 0..3 : faans[i + 1] # None}
        winner_index == IF faan_indices = {} THEN None
                        ELSE Some(CHOOSE i \in faan_indices : TRUE)
        winner_faan  == IF winner_index = None THEN None ELSE faans[winner_index[1] + 1]
    IN  IF Cardinality(faan_indices) > 1
        THEN Raise("MultipleWinnersException", line_number_)
        ELSE IF winner_faan # None /\ winner_faan[1] >= maximum_faan_
        THEN Raise("MaximumFaanExceededException", line_number_)
        ELSE Return([winner_index |-> winner_index, winner_faan |-> winner_faan])

\* Seats are numbered 0..3 as in the code; seat i is entry i + 1 of a tuple.
extract_faan(faans, maximum_faan_, line_number_) ==
    LET faan_indices == {i \in 0..3 : faans[i + 1] # None}
        winner_index == IF faan_indices = {} THEN None
                        ELSE Some(CHOOSE i \in faan_indices : TRUE)
        winner_faan  == IF winner_index = None THEN None ELSE faans[winner_index[1] + 1]
    IN  IF Cardinality(faan_indices) > 1
        THEN Raise("MultipleWinnersException", line_number_)
        ELSE IF winner_faan # None /\ winner_faan[1] > maximum_faan_
        THEN Raise("MaximumFaanExceededException", line_number_)
        ELSE Return([winner_index |-> winner_index, winner_faan |-> winner_faan])

\* extract_blame with `len(blame_indices) > 2`.
extract_blame_two_blamed(blames, line_number_) ==
    LET blame_indices == {i \in 0..3 : blames[i + 1] # None}
        blame_index   == IF blame_indices = {} THEN None
                         ELSE Some(CHOOSE i \in blame_indices : TRUE)
        blame_type    == IF blame_index = None THEN None ELSE blames[blame_index[1] + 1]
    IN  IF Cardinality(blame_indices) > 2
        THEN Raise("MultipleBlameException", line_number_)
        ELSE Return([blame_index |-> blame_index, blame_type |-> blame_type])

extract_blame(blames, line_number_) ==
    LET blame_indices == {i \in 0..3 : blames[i + 1] # None}
        blame_index   == IF blame_indices = {} THEN None
                         ELSE Some(CHOOSE i \in blame_indices : TRUE)
        blame_type    == IF blame_index = None THEN None ELSE blames[blame_index[1] + 1]
    IN  IF Cardinality(blame_indices) > 1
        THEN Raise("MultipleBlameException", line_number_)
        ELSE Return([blame_index |-> blame_index, blame_type |-> blame_type])

\* ----------------------------------------------------------- score engine

\* multiplier_of with the half-spicy rise doubling at every faan above 4.
multiplier_of_doubling(spiciness_, faan) ==
    IF spiciness_ = "half"
    THEN IF faan <= 4
         THEN Some(2^faan)
         ELSE LET index == 4 + (faan - 4) \div 2
              IN  Some(2^index)
    ELSE IF spiciness_ = "spicy"
    THEN Some(2^faan)
    ELSE None

\* The multiplier of compute_score_portion, None where it raises.
multiplier_of(spiciness_, faan) ==
    IF spiciness_ = "half"
    THEN IF faan <= 4
         THEN Some(2^faan)
         ELSE LET index == 4 + (faan - 4) \div 2
              IN  IF faan % 2 = 0
                  THEN Some(2^index)
                  ELSE Some((2^index * 3) \div 2)
    ELSE IF spiciness_ = "spicy"
    THEN Some(2^faan)
    ELSE None

compute_score_portion(base_, spiciness_, faan) ==
    IF multiplier_of(spiciness_, faan) = None THEN RaiseRuntimeError
    ELSE Return(Times(multiplier_of(spiciness_, faan)[1], base_))

\* false_win_scores with the blamed seat paying one portion to each other seat.
false_win_scores_one_portion(portion, blame_index) ==
    IF portion.raised # None THEN portion
    ELSE Return([i \in 1..4 |->
             IF Some(i - 1) = blame_index THEN Times(-3, portion.value[1])
             ELSE portion.value[1]])

\* The `no win` branch of compute_net_scores past the draw, given its portion.
false_win_scores(portion, blame_index) ==
    IF portion.raised # None THEN portion
    ELSE Return([i \in 1..4 |->
             IF Some(i - 1) = blame_index THEN Times(-9, portion.value[1])
             ELSE Times(3, portion.value[1])])

\* The `win` branch of compute_net_scores, given its portion.
win_scores(portion, responsibility_, winner_index, blame_index, blame_type) ==
    IF portion.raised # None THEN portion
    ELSE IF blame_index = None
    THEN Return([i \in 1..4 |->
             IF Some(i - 1) = winner_index THEN Times(3, portion.value[1])
             ELSE Neg(portion.value[1])])
    ELSE IF blame_type = Some("d")
    THEN IF responsibility_ = "half"
         THEN Return([i \in 1..4 |->
                  IF Some(i - 1) = winner_index THEN Times(2, portion.value[1])
                  ELSE IF Some(i - 1) = blame_index THEN Neg(portion.value[1])
                  ELSE Halve(Neg(portion.value[1]))])
         ELSE IF responsibility_ = "full"
         THEN Return([i \in 1..4 |->
                  IF Some(i - 1) = winner_index THEN Times(2, portion.value[1])
                  ELSE IF Some(i - 1) = blame_index THEN Times(-2, portion.value[1])
                  ELSE Zero])
         ELSE RaiseRuntimeError
    ELSE IF blame_type = Some("D")
    THEN Return([i \in 1..4 |->
             IF Some(i - 1) = winner_index THEN Times(2, portion.value[1])
             ELSE IF Some(i - 1) = blame_index THEN Times(-2, portion.value[1])
             ELSE Zero])
    ELSE IF blame_type = Some("S")
    THEN Return([i \in 1..4 |->
             IF Some(i - 1) = winner_index THEN Times(3, portion.value[1])
             ELSE IF Some(i - 1) = blame_index THEN Times(-3, portion.value[1])
             ELSE Zero])
    ELSE RaiseRuntimeError

\* compute_net_scores with a win paid at the maximum faan.
compute_net_scores_at_maximum(base_, maximum_faan_, responsibility_, spiciness_, winner_index, winner_faan, blame_index, blame_type) ==
    IF winner_index = None
    THEN IF blame_index = None
         THEN Return([i \in 1..4 |-> Zero])
         ELSE IF blame_type = Some("f")
         THEN false_win_scores(compute_score_portion(base_, spiciness_, maximum_faan_),
                               blame_index)
         ELSE RaiseRuntimeError
    ELSE win_scores(compute_score_portion(base_, spiciness_, maximum_faan_),
                    responsibility_, winner_index,
                    blame_index,
                    blame_type)

\* compute_net_scores with every discard under full responsibility.
compute_net_scores_full_only(base_, maximum_faan_, responsibility_, spiciness_, winner_index, winner_faan, blame_index, blame_type) ==
    IF winner_index = None
    THEN IF blame_index = None
         THEN Return([i \in 1..4 |-> Zero])
         ELSE IF blame_type = Some("f")
         THEN false_win_scores(compute_score_portion(base_, spiciness_, maximum_faan_),
                               blame_index)
         ELSE RaiseRuntimeError
    ELSE win_scores(compute_score_portion(base_, spiciness_, winner_faan[1]),
                    "full", winner_index,
                    blame_index,
                    blame_type)

\* compute_net_scores with a discard guarantee paid as a plain discard.
compute_net_scores_guarantee_as_discard(base_, maximum_faan_, responsibility_, spiciness_, winner_index, winner_faan, blame_index, blame_type) ==
    IF winner_index = None
    THEN IF blame_index = None
         THEN Return([i \in 1..4 |-> Zero])
         ELSE IF blame_type = Some("f")
         THEN false_win_scores(compute_score_portion(base_, spiciness_, maximum_faan_),
                               blame_index)
         ELSE RaiseRuntimeError
    ELSE win_scores(compute_score_portion(base_, spiciness_, winner_faan[1]),
                    responsibility_, winner_index,
                    blame_index,
                    IF blame_type = Some("D") THEN Some("d") ELSE blame_type)

\* compute_net_scores with a self-draw guarantee paid as a self-drawn win.
compute_net_scores_guarantee_ignored(base_, maximum_faan_, responsibility_, spiciness_, winner_index, winner_faan, blame_index, blame_type) ==
    IF winner_index = None
    THEN IF blame_index = None
         THEN Return([i \in 1..4 |-> Zero])
         ELSE IF blame_type = Some("f")
         THEN false_win_scores(compute_score_portion(base_, spiciness_, maximum_faan_),
                               blame_index)
         ELSE RaiseRuntimeError
    ELSE win_scores(compute_score_portion(base_, spiciness_, winner_faan[1]),
                    responsibility_, winner_index,
                    IF blame_type = Some("S") THEN None ELSE blame_index,
                    blame_type)

compute_net_scores(base_, maximum_faan_, responsibility_, spiciness_, winner_index, winner_faan, blame_index, blame_type) ==
    IF winner_index = None
    THEN IF blame_index = None
         THEN Return([i \in 1..4 |-> Zero])
         ELSE IF blame_type = Some("f")
         THEN false_win_scores(compute_score_portion(base_, spiciness_, maximum_faan_),
                               blame_index)
         ELSE RaiseRuntimeError
    ELSE win_scores(compute_score_portion(base_, spiciness_, winner_faan[1]),
                    responsibility_, winner_index, blame_index, blame_type)

\* -------------------------------------------------------------- players

\* x / n for an int n > 0: true division, rounded once.
Divide(x, n) == Quotient(x.neg, x.man, x.exp, n, SignificandBits + 2 + DigitBits)

\* robust_divide giving 0 where the divisor is 0.
robust_divide_to_zero(dividend, divisor) ==
    IF divisor = 0 THEN Some(Zero) ELSE Some(Divide(dividend, divisor))

robust_divide(dividend, divisor) ==
    IF divisor = 0 THEN None ELSE Some(Divide(dividend, divisor))

\* Player.__init__
Player(name) ==
    [name |-> name,
     game_count |-> 0, win_count |-> 0, blame_count |-> 0, net_score |-> Zero,
     win_fraction |-> Some(Zero), blame_fraction |-> Some(Zero),
     net_score_per_game |-> Some(Zero)]

update_averages(player) ==
    [player EXCEPT
        !.win_fraction       = robust_divide(FromInt(player.win_count), player.game_count),
        !.blame_fraction     = robust_divide(FromInt(player.blame_count), player.game_count),
        !.net_score_per_game = robust_divide(player.net_score, player.game_count)]

\* The dict player_from_name is the tuple of its values in insertion order.
HasPlayer(player_from_name_, name) ==
    \E i \in 1..Len(player_from_name_) : player_from_name_[i].name = name

RECURSIVE AddPlayersAfresh(_, _, _)
\* AddPlayers into an emptied dict: the players of earlier rosters are dropped.
AddPlayersAfresh(player_from_name_, names_, i) ==
    IF i > Len(names_) THEN <<>>
    ELSE <<Player(names_[i])>> \o AddPlayersAfresh(player_from_name_, names_, i + 1)

RECURSIVE AddPlayers(_, _, _)
\* for name in names: if name not in player_from_name: ... = Player(name)
AddPlayers(player_from_name_, names_, i) ==
    IF i > Len(names_) THEN player_from_name_
    ELSE AddPlayers(IF HasPlayer(player_from_name_, names_[i]) THEN player_from_name_
                    ELSE Append(player_from_name_, Player(names_[i])),
                    names_, i + 1)

\* Game.__init__
Game(date_, base_, maximum_faan_, responsibility_, spiciness_, names_, winner_index, winner_faan, blame_index, blame_type) ==
    [date |-> date_, base |-> base_, maximum_faan |-> maximum_faan_,
     responsibility |-> responsibility_, spiciness |-> spiciness_,
     names |-> names_, winner_index |-> winner_index, winner_faan |-> winner_faan,
     blame_index |-> blame_index, blame_type |-> blame_type]

net_scores_of(game) ==
    compute_net_scores(game.base, game.maximum_faan, game.responsibility, game.spiciness,
                       game.winner_index, game.winner_faan, game.blame_index, game.blame_type)

RECURSIVE UpdateSeats(_, _, _, _)
\* The loop of Game.update over enumerate(self.names), from seat `index` on.
UpdateSeats(game, net_scores, player_from_name_, index) ==
    IF index > 3 THEN player_from_name_
    ELSE LET name == game.names[index + 1]
             at   == CHOOSE i \in 1..Len(player_from_name_) : player_from_name_[i].name = name
             old  == player_from_name_[at]
             new  == [old EXCEPT
                         !.game_count  = @ + 1,
                         !.win_count   = @ + (IF Some(index) = game.winner_index THEN 1 ELSE 0),
                         !.blame_count = @ + (IF Some(index) = game.blame_index THEN 1 ELSE 0),
                         !.net_score   = Plus(@, net_scores[index + 1])]
         IN  UpdateSeats(game, net_scores, [player_from_name_ EXCEPT ![at] = new], index + 1)

UpdateWith(game, net_scores, player_from_name_) ==
    IF net_scores.raised # None THEN net_scores
    ELSE Return(UpdateSeats(game, net_scores.value[1], player_from_name_, 0))

\* Game.update
update(game, player_from_name_) == UpdateWith(game, net_scores_of(game), player_from_name_)

RECURSIVE UpdateGamesButLast(_, _, _)
\* UpdateGames with the last game left out.
UpdateGamesButLast(games_, updated, i) ==
    IF i >= Len(games_) \/ updated.raised # None THEN updated
    ELSE UpdateGamesButLast(games_, update(games_[i], updated.value[1]), i + 1)

RECURSIVE UpdateGames(_, _, _)
\* for game in games: game.update(player_from_name), from game i on; `updated`
\* is what the updates before it made of player_from_name.
UpdateGames(games_, updated, i) ==
    IF i > Len(games_) \/ updated.raised # None THEN updated
    ELSE UpdateGames(games_, update(games_[i], updated.value[1]), i + 1)

RECURSIVE SumInts(_, _)
SumInts(xs, i) == IF i > Len(xs) THEN 0 ELSE xs[i] + SumInts(xs, i + 1)

RECURSIVE SumNumbers(_, _, _)
\* sum(...): from the int 0, left to right.
SumNumbers(xs, i, acc) == IF i > Len(xs) THEN acc ELSE SumNumbers(xs, i + 1, Plus(acc, xs[i]))

\* The `everyone` record of ScoreMaster.parse.
Everyone(players) ==
    [Player("*") EXCEPT
        !.game_count  = SumInts([i \in 1..Len(players) |-> players[i].game_count], 1),
        !.win_count   = SumInts([i \in 1..Len(players) |-> players[i].win_count], 1),
        !.blame_count = SumInts([i \in 1..Len(players) |-> players[i].blame_count], 1),
        !.net_score   = SumNumbers([i \in 1..Len(players) |-> players[i].net_score], 1, Zero)]

\* ------------------------------------------------------------- the inputs
\* The lines a scores text is made of, and the dates of the --from and --to
\* arguments.

Join4(a, b, c, d) == a \o " " \o b \o " " \o c \o " " \o d

Dates == {"2024-01-01", "2024-01-02"}

DateLines == Dates

\* The dates given to --from and --to.
BoundDates == {"2024-01-02"}

BaseLines == {"B=0.5", "B=0.1", "B=0..1"}

MaximumLines == {"M=3", "M=14"}

ResponsibilityLines == {"R=half", "R=full"}

SpicinessLines == {"S=half", "S=spicy"}

\* Two rosters, and lines that repeat a name: one line for each pair of seats
\* that holds the one repeated name, and lines that repeat it more than once
\* or repeat two names.
PlayersLines ==
    {"A B C D", "B A D E"}
    \cup {"A A B C", "A B A C", "A B C A", "B A A C", "B A C A", "B C A A"}
    \cup {"A A A A", "A B A B", "B A A A"}

SeatTokens == {"-", "d", "D", "S", "f", "4"}

\* Every line of four seat tokens of which at most two are not `-`, and some
\* lines with three or four.
GameLines ==
    {Join4(t[1], t[2], t[3], t[4]) :
        t \in {u \in [1..4 -> SeatTokens] : Cardinality({i \in 1..4 : u[i] # "-"}) <= 2}}
    \cup {"0 1 2 3", "14 d d -", "4 d d -", "3 3 d d", "4 f d D", "4 4 4 -",
          "3 - - -", "- - D 3", "14 - - -", " 3  - d -  # pong"}

\* Four blame letters are four player names too.
LetterLines == {"d d S f"}

CommentLines == {"", "# rained off"}

OtherLines == {"x", "A B C", "3 g - -", "A B C 3"}

Lines ==
    DateLines \cup BaseLines \cup MaximumLines \cup ResponsibilityLines
    \cup SpicinessLines \cup PlayersLines \cup GameLines \cup LetterLines
    \cup CommentLines \cup OtherLines

\* The base lines of the texts to tally: a float base, and no stake at all.
TallyBaseLines == {"B=0.1", "B=0"}

\* What each pattern of ScoreMaster makes of each line, tabulated once
\* (`@@` makes the table explicit).
Matched ==
    <<>> @@
    [l \in Lines \cup TallyBaseLines |->
        [date_line           |-> match_date_line(l),
         base_line           |-> match_base_line(l),
         maximum_line        |-> match_maximum_line(l),
         responsibility_line |-> match_responsibility_line(l),
         spiciness_line      |-> match_spiciness_line(l),
         players_line        |-> match_players_line(l),
         game_line           |-> match_game_line(l),
         comment_line        |-> match_comment_line(l)]]

\* ------------------------------------------------------------ the machine

DEFAULT_BASE == FromInt(1)

DEFAULT_MAXIMUM_FAAN == 13

DEFAULT_RESPONSIBILITY == "full"

DEFAULT_SPICINESS == "half"

Init ==
    /\ start_date \in {None} \cup {Some(d) : d \in BoundDates}
    /\ end_date \in {None} \cup {Some(d) : d \in BoundDates}
    /\ player_from_name = <<>>
    /\ games = <<>>
    /\ date = None
    /\ base = DEFAULT_BASE
    /\ maximum_faan = DEFAULT_MAXIMUM_FAAN
    /\ responsibility = DEFAULT_RESPONSIBILITY
    /\ spiciness = DEFAULT_SPICINESS
    /\ names = None
    /\ line_number = 0
    /\ line = None
    /\ pc = "for"
    /\ raised = None
    /\ players_including_everyone = <<>>
    /\ tsv = <<>>

\* `continue`: on to the next line.  The variable `line` is dead until the
\* loop assigns it again.
Continue ==
    /\ pc' = "for"
    /\ line' = None
    /\ UNCHANGED <<start_date, end_date, line_number, raised, players_including_everyone, tsv>>

\* `raise ...` out of parse.
Raised(exception) ==
    /\ pc' = "raised"
    /\ raised' = exception
    /\ UNCHANGED <<start_date, end_date, line_number, line, players_including_everyone, tsv,
                   player_from_name, games, context>>

\* for line_number, line in enumerate(lines, start=1)
NextLine ==
    /\ pc = "for"
    /\ line_number < MaxLines
    /\ \E l \in Lines :
          /\ Matched[l].game_line # None => Len(games) < MaxGames
          /\ line' = Some(l)
    /\ line_number' = line_number + 1
    /\ pc' = "line"
    /\ UNCHANGED <<start_date, end_date, player_from_name, games, context, raised,
                   players_including_everyone, tsv>>

\* DateLine with the comparison turned round: `date < new_date` raises.
DateLineLaterRejected ==
    /\ pc = "line"
    /\ Matched[line[1]].date_line # None
    /\ LET new_date == Matched[line[1]].date_line[1].date
       IN  IF date # None /\ StrLess(date[1], new_date)
           THEN Raised(Raise("BadChronologyException", line_number).raised)
           ELSE /\ date' = Some(new_date)
                /\ Continue
                /\ UNCHANGED <<player_from_name, games, base, maximum_faan, responsibility,
                               spiciness, names>>

\* if date_line_match: ...
DateLine ==
    /\ pc = "line"
    /\ Matched[line[1]].date_line # None
    /\ LET new_date == Matched[line[1]].date_line[1].date
       IN  IF date # None /\ StrLess(new_date, date[1])
           THEN Raised(Raise("BadChronologyException", line_number).raised)
           ELSE /\ date' = Some(new_date)
                /\ Continue
                /\ UNCHANGED <<player_from_name, games, base, maximum_faan, responsibility,
                               spiciness, names>>

BeforeStartDate ==
    /\ start_date # None
    /\ (IF date = None THEN TRUE ELSE StrLess(date[1], start_date[1]))

\* NotBeforeEndDate with `date > end_date`.
AfterEndDate ==
    /\ end_date # None
    /\ (IF date = None THEN TRUE ELSE StrLess(end_date[1], date[1]))

NotBeforeEndDate ==
    /\ end_date # None
    /\ (IF date = None THEN TRUE ELSE ~StrLess(date[1], end_date[1]))

\* if start_date is not None: if date is None or date < start_date: continue
SkipBeforeStartDate ==
    /\ pc = "line"
    /\ Matched[line[1]].date_line = None
    /\ BeforeStartDate
    /\ Continue
    /\ UNCHANGED <<player_from_name, games, context>>

\* if end_date is not None: if date is None or date >= end_date: continue
SkipNotBeforeEndDate ==
    /\ pc = "line"
    /\ Matched[line[1]].date_line = None
    /\ ~BeforeStartDate
    /\ NotBeforeEndDate
    /\ Continue
    /\ UNCHANGED <<player_from_name, games, context>>

\* The line has passed the date pattern and the date window.
Examined ==
    /\ pc = "line"
    /\ Matched[line[1]].date_line = None
    /\ ~BeforeStartDate
    /\ ~NotBeforeEndDate

\* if base_line_match: ...
BaseLine ==
    /\ Examined
    /\ Matched[line[1]].base_line # None
    /\ LET base_str == Matched[line[1]].base_line[1].base
       IN  IF float(base_str) = None
           THEN Raised(Raise("BadFloatException", line_number).raised)
           ELSE /\ base' = float(base_str)[1]
                /\ Continue
                /\ UNCHANGED <<player_from_name, games, date, maximum_faan, responsibility,
                               spiciness, names>>

\* if maximum_line_match: ...
MaximumLine ==
    /\ Examined
    /\ Matched[line[1]].base_line = None
    /\ Matched[line[1]].maximum_line # None
    /\ maximum_faan' = int(Matched[line[1]].maximum_line[1].maximum_faan)
    /\ Continue
    /\ UNCHANGED <<player_from_name, games, date, base, responsibility, spiciness, names>>

\* if responsibility_line_match: ...
ResponsibilityLine ==
    /\ Examined
    /\ Matched[line[1]].base_line = None
    /\ Matched[line[1]].maximum_line = None
    /\ Matched[line[1]].responsibility_line # None
    /\ responsibility' = Matched[line[1]].responsibility_line[1].responsibility
    /\ Continue
    /\ UNCHANGED <<player_from_name, games, date, base, maximum_faan, spiciness, names>>

\* if spiciness_line_match: ...
SpicinessLine ==
    /\ Examined
    /\ Matched[line[1]].base_line = None
    /\ Matched[line[1]].maximum_line = None
    /\ Matched[line[1]].responsibility_line = None
    /\ Matched[line[1]].spiciness_line # None
    /\ spiciness' = Matched[line[1]].spiciness_line[1].spiciness
    /\ Continue
    /\ UNCHANGED <<player_from_name, games, date, base, maximum_faan, responsibility, names>>

NoDeclaration ==
    /\ Examined
    /\ Matched[line[1]].base_line = None
    /\ Matched[line[1]].maximum_line = None
    /\ Matched[line[1]].responsibility_line = None
    /\ Matched[line[1]].spiciness_line = None

\* if players_line_match: ...
PlayersLine ==
    /\ NoDeclaration
    /\ Matched[line[1]].players_line # None
    /\ LET new_names       == Matched[line[1]].players_line[1].name
           duplicate_names == get_duplicates(new_names)
       IN  IF duplicate_names # <<>>
           THEN \* `names` is assigned before the check
                /\ names' = Some(new_names)
                /\ pc' = "raised"
                /\ raised' = Some([type |-> "DuplicatePlayerNamesException",
                                   line_number |-> line_number,
                                   duplicate_names |-> duplicate_names])
                /\ UNCHANGED <<start_date, end_date, line_number, line,
                               players_including_everyone, tsv, player_from_name, games,
                               date, base, maximum_faan, responsibility, spiciness>>
           ELSE /\ names' = Some(new_names)
                /\ player_from_name' = AddPlayers(player_from_name, new_names, 1)
                /\ Continue
                /\ UNCHANGED <<games, date, base, maximum_faan, responsibility, spiciness>>

\* NoWinYetNonFalseBlame with the check left out.
NoWinYetAnyBlame(winner_index, blame_type) == FALSE

\* if winner_index is None: if blame_type is not None and blame_type != 'f'
NoWinYetNonFalseBlame(winner_index, blame_type) ==
    winner_index = None /\ blame_type # None /\ blame_type # Some("f")

\* WinYetFalseBlame without the test of the winner.
AnyFalseBlame(winner_index, blame_type) == blame_type = Some("f")

\* else: if blame_type == 'f'
WinYetFalseBlame(winner_index, blame_type) ==
    winner_index # None /\ blame_type = Some("f")

\* RedundantDiscardGuarantee with `responsibility == 'half'`.
DiscardGuaranteeUnderHalf(responsibility_, blame_type) ==
    responsibility_ = "half" /\ blame_type = Some("D")

\* if responsibility == 'full' and blame_type == 'D'
RedundantDiscardGuarantee(responsibility_, blame_type) ==
    responsibility_ = "full" /\ blame_type = Some("D")

\* Checked with the discard-guarantee check before the winner/blame checks.
CheckedGuaranteeFirst(winner, blame) ==
    IF winner.raised # None THEN winner
    ELSE IF blame.raised # None THEN blame
    ELSE IF RedundantDiscardGuarantee(responsibility, blame.value[1].blame_type)
    THEN Raise("RedundantDiscardGuaranteeException", line_number)
    ELSE IF NoWinYetNonFalseBlame(winner.value[1].winner_index, blame.value[1].blame_type)
    THEN Raise("NoWinYetNonFalseBlameException", line_number)
    ELSE IF WinYetFalseBlame(winner.value[1].winner_index, blame.value[1].blame_type)
    THEN Raise("WinYetFalseBlameException", line_number)
    ELSE Return(Game(date, base, maximum_faan, responsibility, spiciness, names[1],
                     winner.value[1].winner_index, winner.value[1].winner_faan,
                     blame.value[1].blame_index, blame.value[1].blame_type))

\* The results of extract_faan and extract_blame, checked and made a Game.
Checked(winner, blame) ==
    IF winner.raised # None THEN winner
    ELSE IF blame.raised # None THEN blame
    ELSE IF NoWinYetNonFalseBlame(winner.value[1].winner_index, blame.value[1].blame_type)
    THEN Raise("NoWinYetNonFalseBlameException", line_number)
    ELSE IF WinYetFalseBlame(winner.value[1].winner_index, blame.value[1].blame_type)
    THEN Raise("WinYetFalseBlameException", line_number)
    ELSE IF RedundantDiscardGuarantee(responsibility, blame.value[1].blame_type)
    THEN Raise("RedundantDiscardGuaranteeException", line_number)
    ELSE Return(Game(date, base, maximum_faan, responsibility, spiciness, names[1],
                     winner.value[1].winner_index, winner.value[1].winner_faan,
                     blame.value[1].blame_index, blame.value[1].blame_type))

\* GameOf with `if names is None` after extract_faan.
GameOfWinnerThenPlayers(g) ==
    LET winner == extract_faan([i \in 1..4 |-> normalise_faan(g.faan[i])],
                               maximum_faan, line_number)
    IN  IF winner.raised # None THEN winner
        ELSE IF names = None THEN Raise("NoPlayersException", line_number)
        ELSE Checked(winner,
                     extract_blame([i \in 1..4 |-> normalise_blame(g.blame[i])], line_number))

\* What the game-line branch of parse does with the groups g of the match:
\* the exception it raises, or the Game it appends.
GameOf(g) ==
    IF names = None THEN Raise("NoPlayersException", line_number)
    ELSE Checked(extract_faan([i \in 1..4 |-> normalise_faan(g.faan[i])],
                              maximum_faan, line_number),
                 extract_blame([i \in 1..4 |-> normalise_blame(g.blame[i])], line_number))

\* if game_line_match: ...
GameLine ==
    /\ NoDeclaration
    /\ Matched[line[1]].players_line = None
    /\ Matched[line[1]].game_line # None
    /\ LET game == GameOf(Matched[line[1]].game_line[1])
       IN  IF game.raised # None
           THEN Raised(game.raised)
           ELSE /\ games' = Append(games, game.value[1])
                /\ Continue
                /\ UNCHANGED <<player_from_name, context>>

\* if ScoreMaster.match_comment_line(line): continue
CommentLine ==
    /\ NoDeclaration
    /\ Matched[line[1]].players_line = None
    /\ Matched[line[1]].game_line = None
    /\ Matched[line[1]].comment_line # None
    /\ Continue
    /\ UNCHANGED <<player_from_name, games, context>>

\* raise ScoreMaster.InvalidLineException(...)
InvalidLine ==
    /\ NoDeclaration
    /\ Matched[line[1]].players_line = None
    /\ Matched[line[1]].game_line = None
    /\ Matched[line[1]].comment_line = None
    /\ Raised(Raise("InvalidLineException", line_number).raised)

RECURSIVE UpdateAverages(_, _)
\* for player in players_including_everyone: player.update_averages()
UpdateAverages(players, i) ==
    IF i > Len(players) THEN players
    ELSE UpdateAverages([players EXCEPT ![i] = update_averages(players[i])], i + 1)

\* The Player objects are shared by player_from_name and the returned list.
Returned(all) ==
    /\ player_from_name' = SubSeq(all, 1, Len(all) - 1)
    /\ players_including_everyone' = all
    /\ pc' = "returned"
    /\ UNCHANGED <<start_date, end_date, games, context, line_number, line, raised, tsv>>

AfterUpdates(updated) ==
    IF updated.raised # None
    THEN Raised(updated.raised)
    ELSE Returned(UpdateAverages(Append(updated.value[1], Everyone(updated.value[1])), 1))

\* The end of the text: the lines after the loop, to `return`.
EndOfText ==
    /\ pc = "for"
    /\ AfterUpdates(UpdateGames(games, Return(player_from_name), 1))

\* rank with the sign of net_score_per_game kept.
rank_ascending(player) ==
    [is_everyone |-> player.name = "*",
     negated     |-> IF player.net_score_per_game = None THEN None
                     ELSE Some(player.net_score_per_game[1]),
     name        |-> player.name]

\* Player.rank; the negated -math.inf of an undefined net_score_per_game is
\* None here.
rank(player) ==
    [is_everyone |-> player.name = "*",
     negated     |-> IF player.net_score_per_game = None THEN None
                     ELSE Some(Neg(player.net_score_per_game[1])),
     name        |-> player.name]

\* x < y on floats, None being +inf.
FloatLess(x, y) ==
    IF x = None THEN FALSE
    ELSE IF y = None THEN TRUE
    ELSE Less(x[1], y[1])

\* Player.__lt__: the tuples compare at their first unequal component.
lt(self, other) ==
    IF rank(self).is_everyone # rank(other).is_everyone THEN rank(other).is_everyone
    ELSE IF rank(self).negated # rank(other).negated
    THEN FloatLess(rank(self).negated, rank(other).negated)
    ELSE StrLess(rank(self).name, rank(other).name)

RECURSIVE Inserted(_, _)
\* `player` put behind the last element of the sorted `players` that it is
\* not less than.
Inserted(players, player) ==
    IF players = <<>> THEN <<player>>
    ELSE IF lt(player, Head(players)) THEN <<player>> \o players
    ELSE <<Head(players)>> \o Inserted(Tail(players), player)

RECURSIVE sorted(_, _, _)
\* sorted(players): a stable sort by __lt__, from element i on.
sorted(players, i, acc) ==
    IF i > Len(players) THEN acc
    ELSE sorted(players, i + 1, Inserted(acc, players[i]))

\* ScoreMaster.write_tsv: for player in sorted(self.players_including_everyone)
WriteTsv ==
    /\ pc = "returned"
    /\ tsv' = sorted(players_including_everyone, 1, <<>>)
    /\ pc' = "written"
    /\ UNCHANGED <<start_date, end_date, player_from_name, games, context, line_number,
                   line, raised, players_including_everyone>>

Next ==
    \/ NextLine
    \/ DateLine
    \/ SkipBeforeStartDate
    \/ SkipNotBeforeEndDate
    \/ BaseLine
    \/ MaximumLine
    \/ ResponsibilityLine
    \/ SpicinessLine
    \/ PlayersLine
    \/ GameLine
    \/ CommentLine
    \/ InvalidLine
    \/ EndOfText
    \/ WriteTsv

Spec == Init /\ [][Next]_vars

\* ------------------------------------------------- the score engine alone
\* Game(...) built by hand and folded into four fresh players, as the tests
\* of compute_net_scores and compute_score_portion call the engine: whatever
\* settings and outcome, also those no scores text can lead to.

MaxFaan == 20

ScoreBases == {FromInt(1), float("0.5")[1], float("0.1")[1]}

MaximumFaans == {3, 8, DEFAULT_MAXIMUM_FAAN}

ScoreNames == <<"A", "B", "C", "D">>

\* (winner_index, winner_faan): both None or both given.
Winners == {<<None, None>>} \cup {<<Some(w), Some(f)>> : w \in 0..3, f \in 0..MaxFaan}

\* (blame_index, blame_type): both None or both given.
Blames == {<<None, None>>} \cup {<<Some(b), Some(t)>> : b \in 0..3, t \in {"d", "D", "S", "f"}}

ScoreInit ==
    /\ start_date = None
    /\ end_date = None
    /\ player_from_name = AddPlayers(<<>>, ScoreNames, 1)
    /\ games = <<>>
    /\ date = None
    /\ base \in ScoreBases
    /\ maximum_faan \in MaximumFaans
    /\ responsibility \in {"half", "full"}
    /\ spiciness \in {"half", "spicy"}
    /\ names = Some(ScoreNames)
    /\ line_number = 0
    /\ line = None
    /\ pc = "new"
    /\ raised = None
    /\ players_including_everyone = <<>>
    /\ tsv = <<>>

\* game = Game(date, base, maximum_faan, responsibility, spiciness, names, ...)
NewGame ==
    /\ pc = "new"
    /\ \E winner \in Winners, blame \in Blames :
          /\ blame[1] = None \/ blame[1] # winner[1]
          /\ games' = <<Game(date, base, maximum_faan, responsibility, spiciness, names[1],
                             winner[1], winner[2], blame[1], blame[2])>>
    /\ pc' = "game"
    /\ UNCHANGED <<start_date, end_date, player_from_name, context, line_number, line,
                   raised, players_including_everyone, tsv>>

\* game.update(player_from_name)
GameUpdate ==
    /\ pc = "game"
    /\ IF update(games[1], player_from_name).raised # None
       THEN Raised(update(games[1], player_from_name).raised)
       ELSE /\ player_from_name' = update(games[1], player_from_name).value[1]
            /\ pc' = "updated"
            /\ UNCHANGED <<start_date, end_date, games, context, line_number, line,
                           raised, players_including_everyone, tsv>>

ScoreNext ==
    \/ NewGame
    \/ GameUpdate

ScoreSpec == ScoreInit /\ [][ScoreNext]_vars

\* -------------------------------------------------- scores texts to tally
\* parse called without date bounds on a text of settings, rosters and game
\* lines: several games, over a change of roster, reach the tally after the
\* loop.

TallyLines ==
    TallyBaseLines \cup {"R=half", "A B C D", "B A D E"}
    \cup {"- - - -", "f - - -", "3 - - -", "4 - - -", "- 4 d -", "- - D 3", "S - - 4"}

TallyInit == Init /\ start_date = None /\ end_date = None

\* for line_number, line in enumerate(lines, start=1)
TallyLine ==
    /\ pc = "for"
    /\ line_number < MaxLines
    /\ \E l \in TallyLines : line' = Some(l)
    /\ line_number' = line_number + 1
    /\ pc' = "line"
    /\ UNCHANGED <<start_date, end_date, player_from_name, games, context, raised,
                   players_including_everyone, tsv>>

TallyNext ==
    \/ TallyLine
    \/ BaseLine
    \/ ResponsibilityLine
    \/ PlayersLine
    \/ GameLine
    \/ EndOfText
    \/ WriteTsv

TallySpec == TallyInit /\ [][TallyNext]_vars

\* ------------------------------------------------------ dated scores texts
\* parse on a text of date lines, one roster and game lines, long enough for
\* games on two dates.

MaxDatedLines == 5

DatedLines == DateLines \cup {"A B C D", "- - - -", "3 - - -"}

\* for line_number, line in enumerate(lines, start=1)
DatedLine ==
    /\ pc = "for"
    /\ line_number < MaxDatedLines
    /\ \E l \in DatedLines : line' = Some(l)
    /\ line_number' = line_number + 1
    /\ pc' = "line"
    /\ UNCHANGED <<start_date, end_date, player_from_name, games, context, raised,
                   players_including_everyone, tsv>>

DatedNext ==
    \/ DatedLine
    \/ DateLine
    \/ SkipBeforeStartDate
    \/ SkipNotBeforeEndDate
    \/ PlayersLine
    \/ GameLine
    \/ EndOfText
    \/ WriteTsv

DatedSpec == Init /\ [][DatedNext]_vars

\* ------------------------------------------------------------ properties
\* The vocabulary of the properties: the tokens of the line the loop is at,
\* and what one pass of the loop body does.

TokensOf == <<>> @@ [l \in Lines \cup TallyBaseLines |-> LineTokens(l)]

Seats == IF line = None THEN <<>> ELSE TokensOf[line[1]]

\* A line of four seat tokens, each a faan value or a blame symbol.
SeatLine ==
    /\ pc = "line"
    /\ Len(Seats) = 4
    /\ \A i \in 1..4 : IsFaanToken(Seats[i]) \/ IsBlameToken(Seats[i])

FaanSeats == {i \in 1..Len(Seats) : IsFaanToken(Seats[i])}

BlameSeats == {i \in 1..Len(Seats) : Seats[i] \in {"d", "D", "S", "f"}}

\* A seat line that is not four blame letters (which are four player names).
GameResultLine == SeatLine /\ \E i \in 1..4 : IsFaanToken(Seats[i]) \/ Seats[i] = "-"

\* A line of four player names.
RosterLine ==
    /\ pc = "line"
    /\ Len(Seats) = 4
    /\ \A i \in 1..4 : IsNameToken(Seats[i])

\* The faan of the one faan token, the symbol of the one blamed seat.
WinnerFaan == int(Seats[CHOOSE i \in FaanSeats : TRUE])

BlameSymbol == Seats[CHOOSE i \in BlameSeats : TRUE]

\* A current date is declared and lies in [start_date, end_date), for the
\* bounds that are supplied.
InDateWindow ==
    /\ start_date # None => (date # None /\ ~StrLess(date[1], start_date[1]))
    /\ end_date # None => (date # None /\ StrLess(date[1], end_date[1]))

\* The loop body raises the exception `type` at the line.
AbortsWith(type) ==
    /\ pc' = "raised"
    /\ raised' # None
    /\ raised'[1].type = type
    /\ raised'[1].line_number = line_number

Raises(type) == pc' = "raised" /\ raised' # None /\ raised'[1].type = type

\* The loop body appends a Game and goes on.
AcceptsGame ==
    /\ pc' = "for"
    /\ raised' = None
    /\ Len(games') = Len(games) + 1
    /\ SubSeq(games', 1, Len(games)) = games

\* The loop body goes on and changes nothing.
SkipsLine == pc' = "for" /\ raised' = None /\ UNCHANGED <<games, context, player_from_name>>

\* A game-result line that passes every check of the parser's context.
ValidGameLine ==
    /\ GameResultLine
    /\ names # None
    /\ Cardinality(FaanSeats) <= 1
    /\ (FaanSeats # {} => WinnerFaan <= maximum_faan)
    /\ Cardinality(BlameSeats) <= 1
    /\ (FaanSeats = {} /\ BlameSeats # {} => BlameSymbol = "f")
    /\ (FaanSeats # {} /\ BlameSeats # {} => BlameSymbol # "f")
    /\ (BlameSeats # {} /\ BlameSymbol = "D" => responsibility # "full")

\* The exact sum of four numbers.
ExactSum(v) == Sum(Sum(v[1], v[2]), Sum(v[3], v[4]))

\* C1: for every accepted game the four values of compute_net_scores sum
\* to exactly 0.
ZeroSumPayout ==
    \A i \in 1..Len(games) :
        /\ net_scores_of(games[i]).raised = None
        /\ ExactSum(net_scores_of(games[i]).value[1]) = Zero

\* What a declaration line declares becomes the parser's context.
DeclarationTakesEffect ==
    /\ (/\ Matched[line[1]].base_line # None
        /\ float(Matched[line[1]].base_line[1].base) # None)
       => base' = float(Matched[line[1]].base_line[1].base)[1]
    /\ Matched[line[1]].maximum_line # None
       => maximum_faan' = int(Matched[line[1]].maximum_line[1].maximum_faan)
    /\ Matched[line[1]].responsibility_line # None
       => responsibility' = Matched[line[1]].responsibility_line[1].responsibility
    /\ Matched[line[1]].spiciness_line # None
       => spiciness' = Matched[line[1]].spiciness_line[1].spiciness
    /\ (RosterLine /\ get_duplicates(Seats) = <<>>) => names' = Some(Seats)

\* C2: every declaration line (B=, M=, R=, S=, roster) is processed and takes
\* effect, whatever the date window and the current date are.
DeclarationsAlwaysTakeEffect == [][pc = "line" => DeclarationTakesEffect]_vars

\* C3: a valid game line is appended to the games if and only if the current
\* date is declared and lies in the window (start inclusive, end exclusive)
\* given by the bounds that are supplied, and a game line outside the window
\* or with no current date is skipped.  With no bound every valid game line
\* is appended.
DateWindowMembership ==
    [][/\ ValidGameLine /\ InDateWindow
          => AcceptsGame /\ games'[Len(games')].date = date
       /\ GameResultLine /\ ~InDateWindow => SkipsLine]_vars

\* The case of C3: a game dated the very start date was appended.
DateWindowMembershipWitness ==
    /\ start_date # None
    /\ games # <<>>
    /\ games[1].date = start_date

\* C4 as stated: a line of four seat tokens met while no roster is declared
\* always aborts with NoPlayersException at that line.
NoRosterAlwaysAborts == [][SeatLine /\ names = None => AbortsWith("NoPlayersException")]_vars

\* C4: a game-result line that the date filter does not skip, met while no
\* roster is in force, aborts with NoPlayersException at that line, whatever
\* its seat tokens.
NoRosterAborts ==
    [][GameResultLine /\ InDateWindow /\ names = None
       => AbortsWith("NoPlayersException")]_vars

\* The case of C4: the line `0 1 2 3` raised NoPlayersException.
NoRosterAbortsWitness ==
    /\ pc = "raised"
    /\ raised[1].type = "NoPlayersException"
    /\ line = Some("0 1 2 3")

\* C5 as stated: with a roster declared, a line of four seat tokens with two
\* or more faan tokens aborts with MultipleWinnersException, and one with
\* exactly one faan token never raises it.
MultipleWinnersAlways ==
    [][SeatLine /\ names # None
       => /\ Cardinality(FaanSeats) >= 2 => AbortsWith("MultipleWinnersException")
          /\ Cardinality(FaanSeats) = 1 => ~Raises("MultipleWinnersException")]_vars

\* C5: with a roster in force, a game-result line that the date filter does
\* not skip and that has two or more faan tokens aborts with
\* MultipleWinnersException, whatever the seats and the other tokens; a line
\* with exactly one faan token never raises it.
MultipleWinners ==
    [][/\ SeatLine /\ InDateWindow /\ names # None /\ Cardinality(FaanSeats) >= 2
          => AbortsWith("MultipleWinnersException")
       /\ SeatLine /\ Cardinality(FaanSeats) = 1
          => ~Raises("MultipleWinnersException")]_vars

\* The case of C5: a line with two faan tokens and two blame symbols raised
\* MultipleWinnersException.
MultipleWinnersWitness ==
    /\ pc = "raised"
    /\ raised[1].type = "MultipleWinnersException"
    /\ Cardinality(FaanSeats) = 2
    /\ Cardinality(BlameSeats) = 2

\* C6 as stated: with a roster declared, a line of four seat tokens with two
\* or more non-null blame symbols aborts with MultipleBlameException, and one
\* with at most one never raises it.
MultipleBlameAlways ==
    [][SeatLine /\ names # None
       => /\ Cardinality(BlameSeats) >= 2 => AbortsWith("MultipleBlameException")
          /\ Cardinality(BlameSeats) <= 1 => ~Raises("MultipleBlameException")]_vars

\* C6: with a roster in force, a game-result line that the date filter does
\* not skip, with at most one faan token, that faan within the maximum, and
\* two or more non-null blame symbols aborts with MultipleBlameException; a
\* line with at most one non-null blame symbol never raises it.
MultipleBlame ==
    [][/\ (/\ GameResultLine /\ InDateWindow /\ names # None
           /\ Cardinality(FaanSeats) <= 1
           /\ (FaanSeats # {} => WinnerFaan <= maximum_faan)
           /\ Cardinality(BlameSeats) >= 2)
          => AbortsWith("MultipleBlameException")
       /\ SeatLine /\ Cardinality(BlameSeats) <= 1
          => ~Raises("MultipleBlameException")]_vars

\* The case of C6: a line with a winner and two blamed seats raised
\* MultipleBlameException.
MultipleBlameWitness ==
    /\ pc = "raised"
    /\ raised[1].type = "MultipleBlameException"
    /\ Cardinality(FaanSeats) = 1
    /\ Cardinality(BlameSeats) = 2

\* The seats of a roster line that repeat the name of an earlier seat.
RepeatSeats == {i \in 1..Len(Seats) : \E j \in 1..(i - 1) : Seats[j] = Seats[i]}

RECURSIVE RepeatedNames(_)
\* The names at the seats RepeatSeats, from seat i on.
RepeatedNames(i) ==
    IF i > Len(Seats) THEN <<>>
    ELSE (IF i \in RepeatSeats THEN <<Seats[i]>> ELSE <<>>) \o RepeatedNames(i + 1)

PairwiseDistinct(t) == \A i, j \in 1..Len(t) : i # j => t[i] # t[j]

\* C7: a roster line that repeats a name aborts with
\* DuplicatePlayerNamesException, which lists each extra occurrence in order;
\* a roster line of four distinct names is accepted and becomes the roster;
\* every accepted Game holds four pairwise distinct names.
DuplicateNamesRejected ==
    /\ [][RosterLine
          => IF RepeatSeats # {}
             THEN /\ AbortsWith("DuplicatePlayerNamesException")
                  /\ raised'[1].duplicate_names = RepeatedNames(1)
             ELSE /\ pc' = "for"
                  /\ names' = Some(Seats)]_vars
    /\ [](\A i \in 1..Len(games) : Len(games[i].names) = 4 /\ PairwiseDistinct(games[i].names))

\* C8 as stated: a game line (met with a roster declared) whose winner faan
\* is above the maximum faan aborts with MaximumFaanExceededException.
MaximumFaanAlways ==
    [][SeatLine /\ names # None /\ Cardinality(FaanSeats) = 1 /\ WinnerFaan > maximum_faan
       => AbortsWith("MaximumFaanExceededException")]_vars

\* C8: with a roster in force, a game-result line that the date filter does
\* not skip and whose one faan token is above the parser's maximum faan aborts
\* with MaximumFaanExceededException; a faan equal to the maximum never raises
\* it and an otherwise valid line is accepted with it; every accepted Game has
\* winner_faan <= its own maximum_faan; no step changes or removes an
\* accepted Game.
MaximumFaan ==
    /\ [][/\ (/\ SeatLine /\ InDateWindow /\ names # None
              /\ Cardinality(FaanSeats) = 1 /\ WinnerFaan > maximum_faan)
             => AbortsWith("MaximumFaanExceededException")
          /\ SeatLine /\ Cardinality(FaanSeats) = 1 /\ WinnerFaan <= maximum_faan
             => ~Raises("MaximumFaanExceededException")
          /\ ValidGameLine /\ InDateWindow /\ FaanSeats # {} /\ WinnerFaan = maximum_faan
             => AcceptsGame /\ games'[Len(games')].winner_faan = Some(maximum_faan)
          /\ SubSeq(games', 1, Len(games)) = games]_vars
    /\ [](\A i \in 1..Len(games) :
              games[i].winner_faan # None => games[i].winner_faan[1] <= games[i].maximum_faan)

\* The case of C8: a game was accepted with a faan equal to the maximum, and
\* a later M= line has lowered the maximum below it.
MaximumFaanWitness ==
    /\ pc = "for"
    /\ games # <<>>
    /\ games[1].winner_faan = Some(games[1].maximum_faan)
    /\ maximum_faan < games[1].maximum_faan

\* The outcomes of C9 and the errors they must or must not raise.
WinnerBlameRules ==
    /\ (FaanSeats = {} /\ Cardinality(BlameSeats) = 1 /\ BlameSymbol \in {"d", "D", "S"})
       => AbortsWith("NoWinYetNonFalseBlameException")
    /\ (/\ Cardinality(FaanSeats) = 1 /\ WinnerFaan <= maximum_faan
        /\ Cardinality(BlameSeats) = 1 /\ BlameSymbol = "f")
       => AbortsWith("WinYetFalseBlameException")

NeitherWinnerBlameError ==
    (\/ FaanSeats = {} /\ BlameSeats = {}
     \/ FaanSeats = {} /\ Cardinality(BlameSeats) = 1 /\ BlameSymbol = "f"
     \/ Cardinality(FaanSeats) = 1 /\ BlameSeats = {})
    => /\ ~Raises("NoWinYetNonFalseBlameException")
       /\ ~Raises("WinYetFalseBlameException")

\* C9 as stated: with a roster declared, a game line with no winner and one
\* blame symbol d, D or S aborts with NoWinYetNonFalseBlameException, one with
\* a winner within the maximum and blame f aborts with
\* WinYetFalseBlameException, and a draw, a false win or a win without blame
\* raises neither.
WinnerBlameConsistencyAlways ==
    [][SeatLine /\ names # None => WinnerBlameRules /\ NeitherWinnerBlameError]_vars

\* C9: the same, for the game lines that the date filter does not skip and
\* with the roster in force.
WinnerBlameConsistency ==
    [][/\ SeatLine /\ InDateWindow /\ names # None => WinnerBlameRules
       /\ SeatLine => NeitherWinnerBlameError]_vars

\* The case of C9: a line with no winner and one blame symbol d, D or S raised
\* NoWinYetNonFalseBlameException.
WinnerBlameConsistencyWitness ==
    /\ pc = "raised"
    /\ raised[1].type = "NoWinYetNonFalseBlameException"
    /\ FaanSeats = {}
    /\ Cardinality(BlameSeats) = 1

NoDiscardGuaranteeUnderFull ==
    \A i \in 1..Len(games) :
        ~(games[i].blame_type = Some("D") /\ games[i].responsibility = "full")

\* C10 as stated: a game line (met with a roster declared) with a winner
\* within the maximum faan and the blame symbol D aborts with
\* RedundantDiscardGuaranteeException if and only if the responsibility is
\* full, and is accepted under half.
DiscardGuaranteeAlways ==
    [][(/\ SeatLine /\ names # None
        /\ Cardinality(FaanSeats) = 1 /\ WinnerFaan <= maximum_faan
        /\ Cardinality(BlameSeats) = 1 /\ BlameSymbol = "D")
       => /\ AbortsWith("RedundantDiscardGuaranteeException") <=> responsibility = "full"
          /\ responsibility = "half" => AcceptsGame]_vars

\* C10: with a roster in force, a game-result line that the date filter does
\* not skip, with one winner within the maximum faan and the one blame symbol
\* D, aborts with RedundantDiscardGuaranteeException if the parser's
\* responsibility is full and is accepted if it is half; no other line raises
\* that error; no accepted Game has blame_type D with responsibility full.
DiscardGuarantee ==
    /\ [][/\ (/\ SeatLine /\ InDateWindow /\ names # None
              /\ Cardinality(FaanSeats) = 1 /\ WinnerFaan <= maximum_faan
              /\ Cardinality(BlameSeats) = 1 /\ BlameSymbol = "D")
             => IF responsibility = "full"
                THEN AbortsWith("RedundantDiscardGuaranteeException")
                ELSE /\ responsibility = "half"
                     /\ AcceptsGame
                     /\ games'[Len(games')].blame_type = Some("D")
          /\ Raises("RedundantDiscardGuaranteeException")
             => responsibility = "full" /\ BlameSeats # {} /\ BlameSymbol = "D"]_vars
    /\ []NoDiscardGuaranteeUnderFull

\* The case of C10: under half responsibility a game with blame symbol D was
\* accepted.
DiscardGuaranteeWitness ==
    /\ games # <<>>
    /\ games[1].blame_type = Some("D")
    /\ games[1].responsibility = "half"

\* The line being examined matches none of the eight patterns of ScoreMaster.
MatchesNoForm ==
    /\ pc = "line"
    /\ Matched[line[1]].date_line = None
    /\ Matched[line[1]].base_line = None
    /\ Matched[line[1]].maximum_line = None
    /\ Matched[line[1]].responsibility_line = None
    /\ Matched[line[1]].spiciness_line = None
    /\ Matched[line[1]].players_line = None
    /\ Matched[line[1]].game_line = None
    /\ Matched[line[1]].comment_line = None

\* C11: a line that matches none of the eight grammar forms aborts the parse
\* with the invalid-line error at that line, whatever the start and end date
\* bounds are.
InvalidLineAlwaysAborts == [][MatchesNoForm => AbortsWith("InvalidLineException")]_vars

\* The line being examined breaks a rule: it matches no grammar form, it is a
\* roster that repeats a name, or it is a game line in the date window that
\* fails a check of the parser's context.
ViolatesRule ==
    \/ MatchesNoForm
    \/ RosterLine /\ RepeatSeats # {}
    \/ GameResultLine /\ InDateWindow /\ ~ValidGameLine

\* No Game has been folded into a Player and no list has been returned.
NothingFolded ==
    /\ players_including_everyone = <<>>
    /\ \A i \in 1..Len(player_from_name) :
          /\ player_from_name[i].game_count = 0
          /\ player_from_name[i].win_count = 0
          /\ player_from_name[i].blame_count = 0
          /\ player_from_name[i].net_score = Zero

\* The exception carries the 1-based number of the line it was raised at,
\* nothing follows it, and nothing is folded before the last line is accepted.
RaiseIsFinal ==
    /\ [][pc # "raised"]_vars
    /\ [](pc = "raised" => raised # None /\ raised[1].line_number = line_number /\ line_number >= 1)
    /\ [](pc \in {"for", "line", "raised"} => NothingFolded)

\* C12: parse raises on the first line, in file order, that violates any
\* rule, with that line's 1-based number; no later line is examined, no Game
\* is folded into a Player total and nothing is returned.
FailFast ==
    /\ [][pc = "line" /\ ViolatesRule
          => pc' = "raised" /\ raised' # None /\ raised'[1].line_number = line_number]_vars
    /\ RaiseIsFinal

\* The vocabulary of the payout properties: one Game folded into four fresh
\* players.
Scored == pc = "updated"

NetScores == net_scores_of(games[1]).value[1]

\* The multiplier of the rise at a faan.
RiseMultiplier(spiciness_, faan) ==
    IF spiciness_ = "spicy" \/ faan <= 4 THEN 2^faan
    ELSE IF faan % 2 = 0 THEN 2^(4 + (faan - 4) \div 2)
    ELSE (2^(4 + (faan - 4) \div 2) * 3) \div 2

PortionAt(faan) == Times(RiseMultiplier(games[1].spiciness, faan), games[1].base)

WinPortion == PortionAt(games[1].winner_faan[1])

\* The vector with `won` at the winner's seat, `blamed` at the blamed seat
\* and `other` at the other seats.
Payout(won, blamed, other) ==
    [i \in 1..4 |->
        IF Some(i - 1) = games[1].winner_index THEN won
        ELSE IF Some(i - 1) = games[1].blame_index THEN blamed
        ELSE other]

\* The totals of the four players are the vector v.
Folded(v) == \A i \in 1..4 : player_from_name[i].net_score = v[i]

PlainSettings(maximum_faan_) ==
    /\ games[1].base = FromInt(1)
    /\ games[1].spiciness = "half"
    /\ games[1].maximum_faan = maximum_faan_

FalseWin == Scored /\ games[1].winner_index = None /\ games[1].blame_type = Some("f")

\* C13: a false-win (no winner, blame f on seat b) pays -9 portions at seat
\* b and +3 portions at each other seat, the portion being base times the
\* multiplier at the Game's maximum faan: 192/-576 at maximum faan 8 and
\* 1152/-3456 at maximum faan 13, for base 1 under the half-spicy rise.
FalseWinPayout ==
    FalseWin
    => /\ NetScores
          = Payout(Zero, Times(-9, PortionAt(games[1].maximum_faan)),
                   Times(3, PortionAt(games[1].maximum_faan)))
       /\ PlainSettings(8) => NetScores = Payout(Zero, FromInt(-576), FromInt(192))
       /\ PlainSettings(13) => NetScores = Payout(Zero, FromInt(-3456), FromInt(1152))
       /\ Folded(NetScores)

FalseWinPayoutWitness ==
    /\ FalseWin
    /\ PlainSettings(8)
    /\ games[1].blame_index = Some(1)
    /\ player_from_name[1].net_score = FromInt(192)
    /\ player_from_name[2].net_score = FromInt(-576)

Win(blame_type) == Scored /\ games[1].winner_index # None /\ games[1].blame_type = blame_type

WinAt(winner_index, winner_faan, blame_index) ==
    /\ games[1].winner_index = Some(winner_index)
    /\ games[1].winner_faan = Some(winner_faan)
    /\ games[1].blame_index = blame_index

\* C14: a self-drawn win (winner at faan f, no blame) pays +3 portions at
\* the winner's seat and -1 portion at each other seat, the portion being
\* base times the multiplier at f whatever the responsibility mode and the
\* maximum faan are: (+3, -1, -1, -1) for faan 0, base 1, half-spicy, seat 0.
SelfDrawnPayout ==
    Win(None)
    => /\ NetScores = Payout(Times(3, WinPortion), Zero, Neg(WinPortion))
       /\ (games[1].base = FromInt(1) /\ games[1].spiciness = "half" /\ WinAt(0, 0, None))
          => NetScores = <<FromInt(3), FromInt(-1), FromInt(-1), FromInt(-1)>>
       /\ Folded(NetScores)

SelfDrawnPayoutWitness ==
    /\ Win(None)
    /\ WinAt(0, 5, None)
    /\ games[1].maximum_faan = 3
    /\ games[1].responsibility = "half"
    /\ games[1].base = FromInt(1)
    /\ games[1].spiciness = "half"
    /\ player_from_name[1].net_score = FromInt(72)
    /\ player_from_name[4].net_score = FromInt(-24)

\* C15: a discard win under half responsibility (blame d on seat b) pays +2
\* portions at the winner's seat, -1 portion at seat b and -1/2 portion at
\* each of the two other seats: (-32, +128, -64, -32) for faan 8, base 1,
\* half-spicy, winner seat 1, blamed seat 2.
HalfDiscardPayout ==
    (Win(Some("d")) /\ games[1].responsibility = "half")
    => /\ NetScores = Payout(Times(2, WinPortion), Neg(WinPortion), Halve(Neg(WinPortion)))
       /\ (PlainSettings(games[1].maximum_faan) /\ WinAt(1, 8, Some(2)))
          => NetScores = <<FromInt(-32), FromInt(128), FromInt(-64), FromInt(-32)>>
       /\ Folded(NetScores)

HalfDiscardPayoutWitness ==
    /\ Win(Some("d"))
    /\ games[1].responsibility = "half"
    /\ PlainSettings(8)
    /\ WinAt(1, 8, Some(2))
    /\ player_from_name[1].net_score = FromInt(-32)
    /\ player_from_name[3].net_score = FromInt(-64)

FullDiscard == Payout(Times(2, WinPortion), Times(-2, WinPortion), Zero)

\* compute_net_scores for the Game's winner and blamed seat, had the blame
\* been d under full responsibility.
AsFullDiscard ==
    compute_net_scores(games[1].base, games[1].maximum_faan, "full", games[1].spiciness,
                       games[1].winner_index, games[1].winner_faan, games[1].blame_index,
                       Some("d")).value[1]

\* C16: a discard win under full responsibility pays +2 portions at the
\* winner's seat, -2 portions at the blamed seat and 0 at the two other
\* seats ((+128, 0, 0, -128) for faan 8, base 1, half-spicy, winner seat 0,
\* blamed seat 3), and a discard-guarantee win (blame D) pays that same
\* vector whatever the responsibility mode is.
FullDiscardPayout ==
    /\ (Win(Some("d")) /\ games[1].responsibility = "full")
       => /\ NetScores = FullDiscard
          /\ (PlainSettings(games[1].maximum_faan) /\ WinAt(0, 8, Some(3)))
             => NetScores = <<FromInt(128), Zero, Zero, FromInt(-128)>>
          /\ Folded(NetScores)
    /\ Win(Some("D"))
       => /\ NetScores = FullDiscard
          /\ NetScores = AsFullDiscard
          /\ Folded(NetScores)

FullDiscardPayoutWitness ==
    /\ Win(Some("D"))
    /\ games[1].responsibility = "half"
    /\ PlainSettings(8)
    /\ WinAt(0, 8, Some(3))
    /\ player_from_name[1].net_score = FromInt(128)
    /\ player_from_name[2].net_score = Zero
    /\ player_from_name[4].net_score = FromInt(-128)

\* C17: a self-draw-guarantee win (blame S on seat b) pays +3 portions at
\* the winner's seat, -3 portions at seat b and 0 at the two other seats,
\* whatever the responsibility mode is.
SelfDrawGuaranteePayout ==
    Win(Some("S"))
    => /\ NetScores = Payout(Times(3, WinPortion), Times(-3, WinPortion), Zero)
       /\ Folded(NetScores)

SelfDrawGuaranteePayoutWitness ==
    /\ Win(Some("S"))
    /\ games[1].responsibility = "half"
    /\ PlainSettings(13)
    /\ WinAt(2, 4, Some(0))
    /\ player_from_name[1].net_score = FromInt(-48)
    /\ player_from_name[2].net_score = Zero
    /\ player_from_name[3].net_score = FromInt(48)

\* The multipliers of the half-spicy rise at faan 0..13.
HalfSpicySequence == <<1, 2, 4, 8, 16, 24, 32, 48, 64, 96, 128, 192, 256, 384>>

\* The call Game.compute_score_portion(base, spiciness, faan) that
\* compute_net_scores makes for the Game's winner.
WinnerPortion == compute_score_portion(games[1].base, games[1].spiciness, games[1].winner_faan[1])

\* C18: compute_score_portion returns base times the multiplier, which under
\* the half-spicy rise is 2^faan up to faan 4 and then, with idx = 4 +
\* floor((faan - 4) / 2), 2^idx at an even faan and floor(2^idx * 3 / 2) at
\* an odd one (1, 2, 4, 8, 16, 24, 32, 48, 64, 96, 128, 192, 256, 384 at faan
\* 0..13), and under the spicy-spicy rise is 2^faan.
MultiplierCurves ==
    (Scored /\ games[1].winner_index # None)
    => /\ WinnerPortion.raised = None
       /\ WinnerPortion.value[1] = WinPortion
       /\ (games[1].spiciness = "half" /\ games[1].winner_faan[1] <= 13 /\ games[1].base = FromInt(1))
          => WinnerPortion.value[1] = FromInt(HalfSpicySequence[games[1].winner_faan[1] + 1])
       /\ (games[1].spiciness = "spicy" /\ games[1].winner_faan[1] <= 20 /\ games[1].base = FromInt(1))
          => WinnerPortion.value[1] = FromInt(2^games[1].winner_faan[1])
       /\ (games[1].blame_index = None)
          => \A i \in 1..4 : Some(i - 1) # games[1].winner_index
                             => player_from_name[i].net_score = Neg(WinnerPortion.value[1])

MultiplierCurvesWitness ==
    /\ Scored
    /\ games[1].spiciness = "half"
    /\ games[1].base = FromInt(1)
    /\ WinAt(3, 13, None)
    /\ player_from_name[1].net_score = FromInt(-384)

\* The accepted games that seat the player `name`, and the seat it has there.
GamesOf(name) == {k \in 1..Len(games) : \E i \in 1..4 : games[k].names[i] = name}

SeatOf(name, k) == CHOOSE i \in 1..4 : games[k].names[i] = name

RECURSIVE PayoutsOf(_, _, _)
\* The payouts of the seats of `name` in the games from k on added, in file
\* order, to acc.
PayoutsOf(name, k, acc) ==
    IF k > Len(games) THEN acc
    ELSE PayoutsOf(name, k + 1,
                   IF k \in GamesOf(name)
                   THEN Plus(acc, net_scores_of(games[k]).value[1][SeatOf(name, k)])
                   ELSE acc)

\* C19: after a successful parse every real player's game_count is the
\* number of accepted games whose roster holds its name, its win_count the
\* number of those where its seat is the winner's, its blame_count the number
\* where its seat is the blamed one, and its net_score the sum of its seats'
\* payouts over those games (all four are 0 for a player of no accepted
\* game).
PerPlayerTotals ==
    pc = "returned"
    => \A p \in 1..Len(player_from_name) :
          LET player == player_from_name[p]
              played == GamesOf(player.name)
          IN  /\ player.game_count = Cardinality(played)
              /\ player.win_count
                 = Cardinality({k \in played : games[k].winner_index = Some(SeatOf(player.name, k) - 1)})
              /\ player.blame_count
                 = Cardinality({k \in played : games[k].blame_index = Some(SeatOf(player.name, k) - 1)})
              /\ player.net_score = PayoutsOf(player.name, 1, Zero)
              /\ played = {} => player.net_score = Zero

\* Two games under two rosters: A wins both, E sits in the second only.
PerPlayerTotalsWitness ==
    /\ pc = "returned"
    /\ Len(games) = 2
    /\ games[1].names = <<"A", "B", "C", "D">>
    /\ games[2].names = <<"B", "A", "D", "E">>
    /\ Len(player_from_name) = 5
    /\ player_from_name[1].name = "A"
    /\ player_from_name[1].game_count = 2
    /\ player_from_name[1].win_count = 2
    /\ player_from_name[1].net_score = FromInt(80)
    /\ player_from_name[3].game_count = 1
    /\ player_from_name[4].blame_count = 1
    /\ player_from_name[5].name = "E"
    /\ player_from_name[5].game_count = 1

\* C20: the record named `*` holds the sums of game_count, win_count,
\* blame_count and net_score over the real players, so its game_count is 4
\* times the number of accepted games, its win_count the number of games with
\* a winner, its blame_count the number of games with a blamed seat and its
\* net_score 0; it is created once and is the last of the returned players.
EveryoneRecord ==
    pc = "returned"
    => LET n        == Len(players_including_everyone)
           everyone == players_including_everyone[n]
       IN  /\ n = Len(player_from_name) + 1
           /\ everyone.name = "*"
           /\ \A i \in 1..(n - 1) : players_including_everyone[i].name # "*"
           /\ everyone.game_count = SumInts([i \in 1..(n - 1) |-> player_from_name[i].game_count], 1)
           /\ everyone.game_count = 4 * Len(games)
           /\ everyone.win_count = Cardinality({k \in 1..Len(games) : games[k].winner_index # None})
           /\ everyone.blame_count = Cardinality({k \in 1..Len(games) : games[k].blame_index # None})
           /\ everyone.net_score = Zero

\* The real players among the rows write_tsv wrote.
RealRows == {i \in 1..Len(tsv) : tsv[i].name # "*"}

\* C21: write_tsv writes the records in a strict total order: the record `*`
\* last; the real players by descending net_score_per_game, those with an
\* undefined one behind all the others, and by ascending name among equals;
\* no two records compare equal and no real player is named `*`.
RankingOrder ==
    pc = "written"
    => /\ Len(tsv) = Len(players_including_everyone)
       /\ \A i \in 1..Len(tsv) : \E j \in 1..Len(tsv) : tsv[j] = players_including_everyone[i]
       /\ tsv[Len(tsv)].name = "*"
       /\ RealRows = 1..(Len(tsv) - 1)
       /\ \A i \in 1..Len(player_from_name) : player_from_name[i].name # "*"
       /\ \A i, j \in RealRows :
             i < j
             => /\ tsv[i].net_score_per_game = None => tsv[j].net_score_per_game = None
                /\ (tsv[i].net_score_per_game # None /\ tsv[j].net_score_per_game # None)
                   => ~Less(tsv[i].net_score_per_game[1], tsv[j].net_score_per_game[1])
                /\ tsv[i].net_score_per_game = tsv[j].net_score_per_game
                   => StrLess(tsv[i].name, tsv[j].name)
       /\ \A i, j \in 1..Len(tsv) : i # j => lt(tsv[i], tsv[j]) # lt(tsv[j], tsv[i])

\* B wins off C's discard, A and D tie at 0, E has played no game.
RankingOrderWitness ==
    /\ pc = "written"
    /\ [i \in 1..Len(tsv) |-> tsv[i].name] = <<"B", "A", "D", "C", "E", "*">>
    /\ tsv[5].net_score_per_game = None
    /\ tsv[2].net_score_per_game = tsv[3].net_score_per_game

\* The Game that the step appends carries the settings and the roster the
\* parser holds at its line.
SnapshotOfContext ==
    LET game == games'[Len(games')]
    IN  /\ game.date = date
        /\ game.base = base
        /\ game.maximum_faan = maximum_faan
        /\ game.responsibility = responsibility
        /\ game.spiciness = spiciness
        /\ names # None
        /\ game.names = names[1]

\* Every Game is the snapshot of the context at its line, and no later step
\* changes or removes a Game.
SnapshotKept ==
    /\ [][Len(games') > Len(games) => SnapshotOfContext]_vars
    /\ [][Len(games') >= Len(games) /\ SubSeq(games', 1, Len(games)) = games]_vars

\* C22: each accepted Game is validated and scored with the base, maximum
\* faan, responsibility, spiciness and roster of the most recent preceding
\* declaration of each kind (the defaults where none precedes it): every
\* declaration line sets its field, every Game is the snapshot of the fields
\* at its line, and no later line changes a Game.
LastWriterWins ==
    /\ [][pc = "line"
          => /\ DeclarationTakesEffect
             /\ Len(games') > Len(games) => SnapshotOfContext]_vars
    /\ [][SubSeq(games', 1, Len(games)) = games]_vars
    /\ [](pc = "for" /\ line_number = 0
          => /\ base = FromInt(1)
             /\ maximum_faan = 13
             /\ responsibility = "full"
             /\ spiciness = "half"
             /\ names = None)

\* The kind of the line being examined, by the first pattern it matches.
LineKind ==
    IF Matched[line[1]].date_line # None THEN "date"
    ELSE IF Matched[line[1]].base_line # None THEN "base"
    ELSE IF Matched[line[1]].maximum_line # None THEN "maximum"
    ELSE IF Matched[line[1]].responsibility_line # None THEN "responsibility"
    ELSE IF Matched[line[1]].spiciness_line # None THEN "spiciness"
    ELSE IF Matched[line[1]].players_line # None THEN "players"
    ELSE IF Matched[line[1]].game_line # None THEN "game"
    ELSE IF Matched[line[1]].comment_line # None THEN "comment"
    ELSE "invalid"

\* The records of the step before are kept as they are, in their places, and
\* the records behind them are fresh records of names not seen before.
RecordsKept ==
    /\ Len(player_from_name') >= Len(player_from_name)
    /\ SubSeq(player_from_name', 1, Len(player_from_name)) = player_from_name
    /\ \A i \in (Len(player_from_name) + 1)..Len(player_from_name') :
          /\ player_from_name'[i] = Player(player_from_name'[i].name)
          /\ ~HasPlayer(player_from_name, player_from_name'[i].name)

\* C23: a date line changes only the date, B= only the base, M= only the
\* maximum faan, R= only the responsibility, S= only the spiciness and a
\* roster line only the roster, adding records for the names not seen before
\* and keeping every record there is; a game line and a comment or blank line
\* change none of the six fields; no step changes a Game once it is built.
LineFrames ==
    /\ [][pc = "line"
          => /\ LineKind # "date" => UNCHANGED date
             /\ LineKind # "base" => UNCHANGED base
             /\ LineKind # "maximum" => UNCHANGED maximum_faan
             /\ LineKind # "responsibility" => UNCHANGED responsibility
             /\ LineKind # "spiciness" => UNCHANGED spiciness
             /\ LineKind # "players" => UNCHANGED <<names, player_from_name>>
             /\ LineKind = "players" => RecordsKept
             /\ LineKind \in {"game", "comment"} => UNCHANGED context]_vars
    /\ [][Len(games') >= Len(games) /\ \A k \in 1..Len(games) : games'[k] = games[k]]_vars

\* A second roster has added E behind the four players of the first.
LineFramesWitness ==
    /\ pc = "for"
    /\ names = Some(<<"B", "A", "D", "E">>)
    /\ [i \in 1..Len(player_from_name) |-> player_from_name[i].name] = <<"A", "B", "C", "D", "E">>
    /\ base # FromInt(1)
    /\ responsibility = "half"

\* The date of the date line being examined.
NewDate == Matched[line[1]].date_line[1].date

\* C24: a date line strictly earlier than the current date aborts with
\* BadChronologyException; an equal or later one, and the first of the text,
\* becomes the current date; both whatever the date window is.  Hence the
\* current date never decreases and the dates of the accepted Games are
\* non-decreasing in file order.
Chronology ==
    /\ [][(pc = "line" /\ Matched[line[1]].date_line # None)
          => IF date # None /\ StrLess(NewDate, date[1])
             THEN AbortsWith("BadChronologyException") /\ UNCHANGED date
             ELSE pc' = "for" /\ raised' = None /\ date' = Some(NewDate)]_vars
    /\ [][date # None => date' # None /\ ~StrLess(date'[1], date[1])]_vars
    /\ [](\A i, j \in 1..Len(games) :
             (i < j /\ games[i].date # None)
             => games[j].date # None /\ ~StrLess(games[j].date[1], games[i].date[1]))

\* Two games accepted on two dates, the second date line having moved the
\* current date on.
ChronologyWitness ==
    /\ Len(games) = 2
    /\ games[1].date = Some("2024-01-01")
    /\ games[2].date = Some("2024-01-02")
    /\ date = Some("2024-01-02")

\* The three ratios of a record are its counts and net score over its
\* game_count, or None where it has no game.
RatiosOf(player) ==
    IF player.game_count = 0
    THEN /\ player.win_fraction = None
         /\ player.blame_fraction = None
         /\ player.net_score_per_game = None
    ELSE /\ player.win_fraction = Some(Divide(FromInt(player.win_count), player.game_count))
         /\ player.blame_fraction = Some(Divide(FromInt(player.blame_count), player.game_count))
         /\ player.net_score_per_game = Some(Divide(player.net_score, player.game_count))
         /\ player.win_count = 0 => player.win_fraction = Some(Zero)
         /\ player.win_count = player.game_count => player.win_fraction = Some(FromInt(1))
         /\ 2 * player.blame_count = player.game_count
            => player.blame_fraction = Some(Halve(FromInt(1)))
         /\ player.game_count = 1 => player.net_score_per_game = Some(player.net_score)

\* C25: after the games are folded every record, `*` included, has
\* win_fraction = win_count / game_count, blame_fraction = blame_count /
\* game_count and net_score_per_game = net_score / game_count where
\* game_count > 0 and None in all three where game_count = 0; robust_divide
\* gives None for the divisor 0 and never raises, so a text of rosters without
\* an accepted game, and the empty text, parse successfully.
DerivedRatios ==
    /\ pc = "returned" => \A i \in 1..Len(players_including_everyone) :
                              RatiosOf(players_including_everyone[i])
    /\ (pc = "raised" /\ games = <<>>) => raised[1].type # "RuntimeError"
    /\ \A n \in 0..1 : robust_divide(FromInt(n), 0) = None
    /\ \A i \in 1..Len(player_from_name) : robust_divide(player_from_name[i].net_score, 0) = None

\* A won one of two games and was never blamed; E is on a roster only.
DerivedRatiosWitness ==
    /\ pc = "returned"
    /\ Len(players_including_everyone) = 6
    /\ players_including_everyone[1].game_count = 2
    /\ players_including_everyone[1].win_fraction = Some(Halve(FromInt(1)))
    /\ players_including_everyone[1].blame_fraction = Some(Zero)
    /\ players_including_everyone[5].game_count = 0
    /\ players_including_everyone[5].net_score_per_game = None
    /\ players_including_everyone[6].name = "*"
    /\ players_including_everyone[6].game_count = 8

\* The patterns of ScoreMaster that match the line being examined.
MatchingForms ==
    {f \in {"date_line", "base_line", "maximum_line", "responsibility_line",
            "spiciness_line", "players_line", "game_line", "comment_line"} :
        Matched[line[1]][f] # None}

\* A line of four blame letters.
LetterLine ==
    /\ pc = "line"
    /\ Len(Seats) = 4
    /\ \A i \in 1..4 : Seats[i] \in {"d", "D", "S", "f"}

\* C26 as stated: no line matches more than one of the eight patterns, and
\* no line of four seat tokens matches the roster pattern.
FormsExclusive ==
    pc = "line"
    => /\ Cardinality(MatchingForms) <= 1
       /\ SeatLine => "players_line" \notin MatchingForms

\* C26, amended: no line matches more than one of the eight patterns, but
\* for a line of four blame letters, which matches the roster pattern and
\* the game pattern and is read as a roster, the roster pattern being tried
\* first; every other line of four seat tokens matches the game pattern only.
FormsExclusiveButLetters ==
    [][pc = "line"
       => /\ ~LetterLine => Cardinality(MatchingForms) <= 1
          /\ (SeatLine /\ ~LetterLine) => MatchingForms = {"game_line"}
          /\ LetterLine
             => /\ MatchingForms = {"players_line", "game_line"}
                /\ InDateWindow => names' = Some(Seats) /\ UNCHANGED games]_vars

\* The line `d d S f` was read as a roster (and refused for its two d).
FormsExclusiveButLettersWitness ==
    /\ pc = "raised"
    /\ raised[1].type = "DuplicatePlayerNamesException"
    /\ names = Some(<<"d", "d", "S", "f">>)

\* The settings and the roster are those of the spec's parse context.
WellFormed(base_, maximum_faan_, responsibility_, spiciness_, names_) ==
    /\ Less(Zero, base_)
    /\ maximum_faan_ \in Nat \ {0}
    /\ responsibility_ \in {"half", "full"}
    /\ spiciness_ \in {"half", "spicy"}
    /\ Len(names_) = 4
    /\ PairwiseDistinct(names_)

\* C27: in every state of the parse that follows accepted lines the base is
\* a positive number, the maximum faan a positive integer, the responsibility
\* half or full, the spiciness half or spicy and the roster absent or four
\* pairwise distinct names; the snapshot of every accepted Game is so too.
ContextWellFormed ==
    /\ pc \in {"for", "line"}
       => WellFormed(base, maximum_faan, responsibility, spiciness,
                     IF names = None THEN ScoreNames ELSE names[1])
    /\ \A k \in 1..Len(games) :
          WellFormed(games[k].base, games[k].maximum_faan, games[k].responsibility,
                     games[k].spiciness, games[k].names)

\* The outcome classes of the score engine that a Game falls into.
OutcomeClasses(game) ==
    {c \in {"draw", "false-win", "self-drawn", "discard-half", "discard-full",
            "discard-guarantee", "self-draw-guarantee"} :
        \/ c = "draw" /\ game.winner_index = None /\ game.blame_index = None
        \/ c = "false-win" /\ game.winner_index = None /\ game.blame_type = Some("f")
        \/ c = "self-drawn" /\ game.winner_index # None /\ game.blame_index = None
        \/ /\ c = "discard-half"
           /\ game.winner_index # None
           /\ game.blame_type = Some("d")
           /\ game.responsibility = "half"
        \/ /\ c = "discard-full"
           /\ game.winner_index # None
           /\ game.blame_type = Some("d")
           /\ game.responsibility = "full"
        \/ c = "discard-guarantee" /\ game.winner_index # None /\ game.blame_type = Some("D")
        \/ c = "self-draw-guarantee" /\ game.winner_index # None /\ game.blame_type = Some("S")}

\* C28: every Game that parse accepts falls into exactly one of the seven
\* outcome classes, so compute_net_scores and compute_score_portion return
\* for it and the tally after the loop never raises RuntimeError.
EngineTotal ==
    /\ \A k \in 1..Len(games) :
          /\ Cardinality(OutcomeClasses(games[k])) = 1
          /\ games[k].spiciness \in {"half", "spicy"}
          /\ net_scores_of(games[k]).raised = None
          /\ compute_score_portion(games[k].base, games[k].spiciness,
                                   IF games[k].winner_faan = None THEN games[k].maximum_faan
                                   ELSE games[k].winner_faan[1]).raised = None
    /\ pc = "raised" => raised # None /\ raised[1].type # "RuntimeError"

\* A discard-guarantee win, accepted under half responsibility, was tallied.
EngineTotalWitness ==
    /\ pc = "returned"
    /\ Len(games) = 1
    /\ OutcomeClasses(games[1]) = {"discard-guarantee"}
    /\ players_including_everyone[Len(players_including_everyone)].game_count = 4

\* C29: in every accepted Game the winner's seat and the blamed seat, where
\* both are there, differ; each is one of the seats 0..3; winner_faan is
\* there exactly when winner_index is, and blame_type exactly when
\* blame_index is.
WinnerNotBlamed ==
    \A k \in 1..Len(games) :
        /\ games[k].winner_index \in {None} \cup {Some(i) : i \in 0..3}
        /\ games[k].blame_index \in {None} \cup {Some(i) : i \in 0..3}
        /\ (games[k].winner_index = None) <=> (games[k].winner_faan = None)
        /\ (games[k].blame_index = None) <=> (games[k].blame_type = None)
        /\ (games[k].winner_index # None /\ games[k].blame_index # None)
           => games[k].winner_index # games[k].blame_index
        /\ games[k].winner_faan # None => games[k].winner_faan[1] \in Nat
        /\ games[k].blame_type \in {None} \cup {Some(t) : t \in {"d", "D", "S", "f"}}

\* The line `- 4 d -` made a Game won at seat 1 off the discard of seat 2.
WinnerNotBlamedWitness ==
    /\ games # <<>>
    /\ games[1].winner_index = Some(1)
    /\ games[1].winner_faan = Some(4)
    /\ games[1].blame_index = Some(2)
    /\ games[1].blame_type = Some("d")

\* The faan tokens of the line that exceed the maximum faan.
HighFaanSeats == {i \in FaanSeats : int(Seats[i]) > maximum_faan}

\* The first rule, in the fixed order, that the game line being examined
\* violates against the parser's context; "none" if it violates no rule.
FirstViolation ==
    IF names = None THEN "NoPlayersException"
    ELSE IF Cardinality(FaanSeats) > 1 THEN "MultipleWinnersException"
    ELSE IF HighFaanSeats # {} THEN "MaximumFaanExceededException"
    ELSE IF Cardinality(BlameSeats) > 1 THEN "MultipleBlameException"
    ELSE IF FaanSeats = {} /\ BlameSeats # {} /\ BlameSymbol # "f"
    THEN "NoWinYetNonFalseBlameException"
    ELSE IF FaanSeats # {} /\ BlameSeats # {} /\ BlameSymbol = "f"
    THEN "WinYetFalseBlameException"
    ELSE IF BlameSeats # {} /\ BlameSymbol = "D" /\ responsibility = "full"
    THEN "RedundantDiscardGuaranteeException"
    ELSE "none"

\* C30 as stated: a game line that violates one rule or several aborts with
\* exactly the error of the first rule it violates, in the order no-roster,
\* multiple-winners, faan-exceeds-maximum, multiple-blame, no-win-yet-non-
\* false-blame or win-yet-false-blame, redundant-discard-guarantee.
ErrorPrecedenceAlways ==
    [][(GameResultLine /\ FirstViolation # "none") => AbortsWith(FirstViolation)]_vars

\* C30, amended: so it is for every game line that the date filter does not
\* skip (and such a line that violates no rule is accepted); a game line met
\* outside the date window raises no error.
ErrorPrecedence ==
    [][/\ (GameResultLine /\ InDateWindow)
          => IF FirstViolation = "none" THEN AcceptsGame ELSE AbortsWith(FirstViolation)
       /\ (GameResultLine /\ ~InDateWindow) => SkipsLine]_vars

\* `14 d d -` under the default maximum faan: two blamed seats, yet the faan
\* error.
ErrorPrecedenceWitness ==
    /\ pc = "raised"
    /\ line = Some("14 d d -")
    /\ names # None
    /\ maximum_faan = 13
    /\ raised[1].type = "MaximumFaanExceededException"

====
